---- MODULE Spec2Model ----
(***************************************************************************)
(* Guardian-Log: the anomaly detection pipeline.                           *)
(*                                                                         *)
(*   Poller.poll -> BaselineAnalyzer.ProcessQuery -> Analyzer.AnalyzeAsync *)
(*   -> Analyzer.worker -> Analyzer.processBatch -> Provider.AnalyzeBatch  *)
(*   -> BoltStore, and the approve / block handlers of the API server.     *)
(*                                                                         *)
(* The wall clock `now` counts units of 30 seconds and `second` the whole   *)
(* seconds since the unit began.  A goroutine that sleeps or waits for a   *)
(* timer runs as its time comes: the clock does not pass a due wake-up.    *)
(* Query timestamps count half seconds, so that two different timestamps   *)
(* can fall into one second, the precision time.RFC3339 keeps.             *)
(* A step is one access to what the goroutines share (a transaction of     *)
(* the store, a critical section of a mutex, a channel operation, a read   *)
(* of the clock, the return of a call to the outside) together with the    *)
(* local computation that leads to it.                                     *)
(* Client display names and query types are carried through the pipeline   *)
(* unchanged and are left out of the records.                              *)
(***************************************************************************)
EXTENDS Integers, Sequences, FiniteSets, TLC

\* ---------------------------------------------------------------- bounds
MaxRecords == 3     \* records the upstream returns in all
PageLen == 2        \* records per fetched page
MaxPolls == 2       \* polls in all
MaxRestarts == 1    \* process restarts
MaxTicks == 3       \* the clock stops here
QueueCap == 2       \* capacity of Analyzer.queryQueue (100 in the source)
BatchSize == 2      \* Analyzer.batchSize (LLM batch size setting, default 20)
MaxRequests == 2    \* requests to the API server in all
MaxLookups == 3     \* cache misses of WHOISService.Lookup the history keeps
MaxProbes == 3      \* answers the upstream has ready for successive connection tests
MaxDeadline == 9    \* the longest Provider.timeout, in seconds
MaxCallTime == 1    \* the longest GenerateContent call, in seconds
MaxSends == 3       \* calls of whois.Whois the history keeps
MaxThrottles == 1   \* throttled batches in all, where the clock runs without end
MaxSeconds == 4     \* how far the seconds of the clock run within a unit
MaxMarkSeconds == 1 \* how far they run where the marks are cleaned

\* ------------------------------------------------- durations, in 30 s units
BatchTimeout == 2   \* Analyzer.batchTimeout, default 60 s
RequestDelay == 2   \* Analyzer.requestDelay, default 60 s
RequeueDelay == 1   \* the sleep before a throttled query is queued again, 30 s
WhoisCacheTTL == 2880  \* enrichment.WhoisCacheTTL, 24 h
RateLimitDelay == 2    \* enrichment.RateLimitDelay, in seconds
UnitSeconds == 30      \* the seconds of one unit of the clock

Clients == {"c1", "c2"}
Domains == {"d1", "d2"}

\* time.Time.Format(time.RFC3339) of a query timestamp: the sub-second part is dropped
FormatRFC3339(t) == t \div 2

\* DNSQuery.QueryID: ClientID + "|" + Domain + "|" + Timestamp.Format(RFC3339)
QueryID(q) == <<q.client, q.domain, FormatRFC3339(q.ts)>>

Pairs == Clients \X Domains
\* the fingerprints of the storage.DNSQuery records; domain "" is a record without
\* a question name
QueryIDs == {QueryID(q) : q \in [client : Clients, domain : Domains \cup {""}, ts : 0..2]}

\* sequences over S of length 0..n
RECURSIVE SeqsUpTo(_, _)
SeqsUpTo(S, n) ==
    IF n = 0 THEN {<<>>}
    ELSE LET shorter == SeqsUpTo(S, n - 1)
         IN  shorter \cup {Append(s, x) : s \in {t \in shorter : Len(t) = n - 1}, x \in S}

Range(s) == {s[i] : i \in 1..Len(s)}

\* s without its i-th element
RemoveAt(s, i) == SubSeq(s, 1, i - 1) \o SubSeq(s, i + 1, Len(s))

VARIABLES
    \* BoltStore
    baselines,      \* bucket "baselines": client -> Baseline.Domains (a list)
    processed,      \* bucket "processed_queries": QueryID -> the time of the mark (-1: no key)
    analyses,       \* bucket "analyses", in key order
    anomalies,      \* bucket "anomalies": Anomaly.ID -> Anomaly
    \* Poller
    pageLeft,       \* Poller.poll: records of the fetched page the loop has not finished
    pollCur,        \* Poller.poll: where the turn of the loop stands, and its record
    polls,          \* polls started so far
    fetched,        \* records fetched so far
    \* Analyzer
    queryQueue,     \* Analyzer.queryQueue, the buffered channel
    currentBatch,   \* Analyzer.currentBatch
    timerDue,       \* Analyzer.batchTimer: when it fires
    worker,         \* Analyzer.worker: "run", "flush" (in the final processBatch), "done"
    tasks,          \* the running processBatch calls, oldest first
    rateLimiter,    \* Analyzer.rateLimiter: tokens in the channel (0 or 1)
    requeues,       \* the goroutines that sleep before AnalyzeAsync of a throttled query
    stats,          \* totalAnalyses, successfulAnalyses, failedAnalyses, rateLimitedCount, batchCount
    ctxDone,        \* Analyzer.ctx is cancelled (Stop was called)
    supportsBatch,  \* Provider.SupportsBatch()
    \* environment
    now,            \* the wall clock
    second,         \* the seconds of the wall clock within its unit
    restarts,       \* process restarts so far
    batchCall,      \* one call of the provider: arguments, and the answer or the result
    submitCall,     \* one call of Analyzer.AnalyzeAsync on its own: arguments and result
    startCall,      \* one call of Poller.Start on its own: what the upstream answers, and the result
    retryCall,      \* one run of the provider's retry loop on its own: arguments and result
    \* main
    mainPc,         \* main: "run", "signalled" (cancel called), "stopping" (in Analyzer.Stop), "closed"
    \* WHOISService
    whoisCache,     \* bucket "whois_cache": domain -> LookedUpAt (-1: no entry)
    \* API server
    requests,       \* the POST /api/anomalies/{id}/{action} requests, in order of arrival
    blockRules,     \* AdGuard Home: the domains that have a Guardian-Log filter
    lastWriter,     \* per Anomaly.ID, the request whose UpdateAnomalyStatus committed last
    \* history
    submitted,      \* AnalyzeAsync calls by the Poller per (client, domain), this lifetime
    calls,          \* ProcessQuery calls per QueryID
    flagged,        \* first-seen results of ProcessQuery per QueryID
    pollsAtStart,   \* the polls started before the process started
    baseAtStart,    \* the baseline domains persisted when the process started
    lastEnd,        \* when the last provider call of a batch returned (-1: none yet)
    firstAt,        \* when the first item of currentBatch was appended (-1: it is empty)
    acceptedAtStop, \* the queries the Analyzer held when Stop was called
    finalBatch,     \* the batch the worker flushed on shutdown
    whoisLog,       \* the Lookup calls that missed the cache so far: domain and time
    pollLog,        \* the errors the Poller has logged: kind, poll, records left in the
                    \* page, and the error
    pacing          \* WHOISService: lastLookup, and the instants at which whois.Whois was
                    \* called by this instance

storeVars == <<baselines, processed, analyses, anomalies>>
pollVars == <<pageLeft, pollCur, polls, fetched>>
dispVars == <<queryQueue, currentBatch, timerDue, worker, tasks, rateLimiter, requeues,
              stats, ctxDone, supportsBatch>>
histVars == <<submitted, calls, flagged, pollsAtStart, baseAtStart, lastEnd>>
callVars == <<batchCall, submitCall, startCall, retryCall>>
downVars == <<mainPc, acceptedAtStop, finalBatch>>
whoisVars == <<whoisCache, whoisLog>>
apiVars == <<requests, blockRules, lastWriter>>
vars == <<storeVars, pollVars, dispVars, now, second, restarts, callVars, apiVars, histVars,
          downVars, whoisVars, firstAt, pollLog, pacing>>

\* ------------------------------------------------------------ BoltStore
\* the zero time.Time
ZeroTime == -1

\* fault: no mark is found
HasSeenQuery_Never(proc, queryID) == FALSE

\* BoltStore.HasSeenQuery
HasSeenQuery(proc, queryID) == proc[queryID] # ZeroTime

\* BoltStore.MarkQueryProcessed: Put of the key with time.Now() in RFC3339, the
\* whole second t, as value
MarkQueryProcessed(proc, queryID, t) == [proc EXCEPT ![queryID] = t]

\* BoltStore.HasDomainInBaseline (GetClientBaseline gives an empty list for an unknown client)
HasDomainInBaseline(bl, clientID, domain) == domain \in Range(bl[clientID])

\* fault: the domain is not written
AddDomainToBaseline_Noop(bl, clientID, domain) == bl

\* fault: the list is replaced by the one domain
AddDomainToBaseline_Overwrite(bl, clientID, domain) == [bl EXCEPT ![clientID] = <<domain>>]

\* fault: the domain is appended without looking for it in the list
AddDomainToBaseline_Append(bl, clientID, domain) == [bl EXCEPT ![clientID] = Append(@, domain)]

\* BoltStore.AddDomainToBaseline
AddDomainToBaseline(bl, clientID, domain) ==
    IF \E i \in 1..Len(bl[clientID]) : bl[clientID][i] = domain
    THEN bl
    ELSE [bl EXCEPT ![clientID] = Append(@, domain)]

\* BoltStore.CleanOldProcessedQueries: every mark whose time is before the cutoff,
\* time.Now().Add(-olderThan), is deleted.  The marks are whole seconds; the cutoff
\* lies in the second cutoff, at its beginning or (later) after it.
CleanOldProcessedQueries(proc, cutoff, later) ==
    [k \in DOMAIN proc |->
        IF proc[k] < cutoff \/ (later /\ proc[k] = cutoff) THEN ZeroTime ELSE proc[k]]

\* the empty Anomaly.ID
NoID == <<>>

\* BoltStore.SaveAnalysis: Put under the key time.Now() in nanoseconds; the writes
\* are serialised, so the key is new and the largest
SaveAnalysis(an, analysis) == Append(an, analysis)

\* the ID SaveAnomaly gives: ClientID|Domain|DetectedAt in RFC3339 (a clock instant
\* is a whole number of seconds)
AnomalyID(a) == <<a.client, a.domain, a.detectedAt>>

\* BoltStore.SaveAnomaly: ID and status are filled in when empty; Put under the ID
SaveAnomaly(anoms, a) ==
    LET id == IF a.id = NoID THEN AnomalyID(a) ELSE a.id
        rec == [a EXCEPT !.id = id, !.status = IF a.status = "" THEN "pending" ELSE a.status]
    IN  [k \in DOMAIN anoms \cup {id} |-> IF k = id THEN rec ELSE anoms[k]]

\* BoltStore.GetAnomalyByID: whether the key is in the bucket
GetAnomalyByID(anoms, id) == id \in DOMAIN anoms

\* fault: a status that is not pending is kept
UpdateAnomalyStatus_KeepTerminal(anoms, id, status) ==
    IF anoms[id].status = "pending" THEN [anoms EXCEPT ![id].status = status] ELSE anoms

\* BoltStore.UpdateAnomalyStatus (the caller has checked that the key exists)
UpdateAnomalyStatus(anoms, id, status) == [anoms EXCEPT ![id].status = status]

\* ------------------------------------------------------------- Provider
Classifications == {"Safe", "Suspicious", "Malicious"}
SuggestedActions == {"Allow", "Investigate", "Block"}

\* LLMResponse.Validate: the error, or "" for nil
ValidateLLMResponse(r) ==
    IF r.classification \notin Classifications THEN "ErrInvalidClassification"
    ELSE IF r.explanation = "" THEN "ErrMissingExplanation"
    ELSE IF r.risk < 1 \/ r.risk > 10 THEN "ErrInvalidRiskScore"
    ELSE IF r.action \notin SuggestedActions THEN "ErrInvalidAction"
    ELSE ""

\* fault: the risk score is not checked
ValidateBatchResponse_NoRisk(r) ==
    IF r.domain = "" THEN "missing domain in batch response"
    ELSE IF r.classification \notin Classifications THEN "ErrInvalidClassification"
    ELSE IF r.explanation = "" THEN "ErrMissingExplanation"
    ELSE IF r.action \notin SuggestedActions THEN "ErrInvalidAction"
    ELSE ""

\* BatchAnalysisResponse.Validate: the error, or "" for nil
ValidateBatchResponse(r) ==
    IF r.domain = "" THEN "missing domain in batch response"
    ELSE IF r.classification \notin Classifications THEN "ErrInvalidClassification"
    ELSE IF r.explanation = "" THEN "ErrMissingExplanation"
    ELSE IF r.risk < 1 \/ r.risk > 10 THEN "ErrInvalidRiskScore"
    ELSE IF r.action \notin SuggestedActions THEN "ErrInvalidAction"
    ELSE ""

\* llm.Analysis as the providers build it from a query and a validated response
Analysis(q, r, t) ==
    [domain |-> q.domain, client |-> q.client, classification |-> r.classification,
     explanation |-> r.explanation, risk |-> r.risk, action |-> r.action, analyzedAt |-> t]

Failed(e) == [err |-> e, analyses |-> <<>>]

\* what the retry loop around GenerateContent ends with: the text of a response
\* ("text": the JSON array parsed into items, "badjson": text json.Unmarshal rejects),
\* a response without candidates ("noresponse"), throttling on every attempt, a passed
\* deadline, or any other error
Failures ==
    {[kind |-> k, items |-> <<>>] : k \in {"badjson", "noresponse", "ratelimited", "timeout", "error"}}

\* fault: the domains are not compared
FirstRejected_NoDomainCheck(queries, items) ==
    LET bad == {i \in 1..Len(items) : ValidateBatchResponse(items[i]) # ""}
    IN  IF bad = {} THEN 0 ELSE CHOOSE i \in bad : \A j \in bad : i <= j

\* the index of the first response the conversion loop of AnalyzeBatch rejects, 0 if none
FirstRejected(queries, items) ==
    LET bad == {i \in 1..Len(items) :
                    \/ ValidateBatchResponse(items[i]) # ""
                    \/ items[i].domain # queries[i].domain}
    IN  IF bad = {} THEN 0 ELSE CHOOSE i \in bad : \A j \in bad : i <= j

\* fault: the responses before the first rejected one are returned
AnalyzeBatch_Partial(queries, reply, ts) ==
    IF Len(queries) = 0 THEN Failed("no queries to analyze")
    ELSE IF reply.kind = "timeout" THEN Failed("ErrTimeout")
    ELSE IF reply.kind = "ratelimited" THEN Failed("ErrRateLimited")
    ELSE IF reply.kind = "error" THEN Failed("Gemini batch API request failed")
    ELSE IF reply.kind = "noresponse" THEN Failed("no response from Gemini for batch")
    ELSE IF reply.kind = "badjson" THEN Failed("ErrInvalidJSON")
    ELSE IF Len(reply.items) # Len(queries) THEN Failed("batch response count mismatch")
    ELSE LET i == FirstRejected(queries, reply.items)
             n == IF i = 0 THEN Len(queries) ELSE i - 1
         IN  [err |-> "",
              analyses |-> [k \in 1..n |-> Analysis(queries[k], reply.items[k], ts[k])]]

\* gemini Provider.AnalyzeBatch, given what the API call ended with; ts[k] is the
\* instant time.Now() gives when the k-th Analysis is built
AnalyzeBatch(queries, reply, ts) ==
    IF Len(queries) = 0 THEN Failed("no queries to analyze")
    ELSE IF reply.kind = "timeout" THEN Failed("ErrTimeout")
    ELSE IF reply.kind = "ratelimited" THEN Failed("ErrRateLimited")
    ELSE IF reply.kind = "error" THEN Failed("Gemini batch API request failed")
    ELSE IF reply.kind = "noresponse" THEN Failed("no response from Gemini for batch")
    ELSE IF reply.kind = "badjson" THEN Failed("ErrInvalidJSON")
    ELSE IF Len(reply.items) # Len(queries) THEN Failed("batch response count mismatch")
    ELSE LET i == FirstRejected(queries, reply.items)
         IN  IF i # 0
             THEN IF ValidateBatchResponse(reply.items[i]) # ""
                  THEN Failed(ValidateBatchResponse(reply.items[i]))
                  ELSE Failed("domain mismatch")
             ELSE [err |-> "",
                   analyses |-> [k \in 1..Len(queries) |->
                                    Analysis(queries[k], reply.items[k], ts[k])]]

\* gemini Provider.Analyze at time t; reply.items holds the one parsed LLMResponse
Analyze(q, reply, t) ==
    IF reply.kind = "timeout" THEN Failed("ErrTimeout")
    ELSE IF reply.kind = "ratelimited" THEN Failed("ErrRateLimited")
    ELSE IF reply.kind = "error" THEN Failed("Gemini API request failed")
    ELSE IF reply.kind = "noresponse" THEN Failed("no response from Gemini")
    ELSE IF reply.kind = "badjson" THEN Failed("ErrInvalidJSON")
    ELSE IF ValidateLLMResponse(reply.items[1]) # ""
         THEN Failed(ValidateLLMResponse(reply.items[1]))
         ELSE [err |-> "", analyses |-> <<Analysis(q, reply.items[1], t)>>]

\* ------------------------------------------------------------- Analyzer
\* fault: the batch counts as full only when it exceeds the batch size
BatchFull_Off(batch) == Len(batch) > BatchSize

\* Analyzer.worker: batchFull := len(a.currentBatch) >= a.batchSize
BatchFull(batch) == Len(batch) >= BatchSize

\* fault: the timer is armed one unit too long
TimerReset_Late(t) == t + BatchTimeout + 1

\* a.batchTimer.Reset(a.batchTimeout) at time t: when the timer fires next
TimerReset(t) == t + BatchTimeout

\* fault: a full queue gives up its oldest query for the new one
AnalyzeAsync_DropOldest(queue, q) ==
    IF Len(queue) < QueueCap THEN Append(queue, q) ELSE Append(Tail(queue), q)

\* Analyzer.AnalyzeAsync: a non-blocking send; a full queue drops the query
AnalyzeAsync(queue, q) ==
    IF Len(queue) < QueueCap THEN Append(queue, q) ELSE queue

\* fault: every Analysis counts as an anomaly
IsAnomalous_Always(analysis) == TRUE

\* fault: only a malicious Analysis counts as an anomaly
IsAnomalous_OnlyMalicious(analysis) == analysis.classification = "Malicious"

\* the condition under which processBatch stores an Anomaly for an Analysis
IsAnomalous(analysis) ==
    analysis.classification = "Suspicious" \/ analysis.classification = "Malicious"

\* the storage.Anomaly processBatch builds from an Analysis
AnomalyOf(analysis) ==
    [id |-> NoID, status |-> "", domain |-> analysis.domain, client |-> analysis.client,
     classification |-> analysis.classification, risk |-> analysis.risk,
     explanation |-> analysis.explanation, action |-> analysis.action,
     detectedAt |-> analysis.analyzedAt]

\* the instant the clock shows: whole seconds
Instant == now * UnitSeconds + second

\* the instants time.Now() gives in the conversion loop of AnalyzeBatch over n
\* responses when the loop starts at instant t: the same second for all of them
\* (j = 0), or the next second from the j-th response on
ItemTimes(n, t, j) == [k \in 1..n |-> IF j # 0 /\ k >= j THEN t + 1 ELSE t]

\* a nil *llm.Analysis
NilAnalysis == [domain |-> "", client |-> "", classification |-> "", explanation |-> "",
                risk |-> 0, action |-> "", analyzedAt |-> ZeroTime]

\* the goroutines processBatch starts for the throttled queries[i..], at time t
RequeueFrom(queries, i, t) ==
    [k \in 1..(Len(queries) - i + 1) |-> [q |-> queries[i + k - 1], due |-> t + RequeueDelay]]

\* fault: the token is given back without the sleep
ReleaseDue_NoSleep(t) == t

\* when the deferred function of processBatch gives the token back
ReleaseDue(t) == t + RequestDelay

\* fault: every error of the provider is handled as throttling
IsRateLimited_Any(err) == err # ""

\* if err == ErrRateLimited
IsRateLimited(err) == err = "ErrRateLimited"

\* --------------------------------------------------------------- Poller
\* the records AdGuardClient.FetchQueryLog can return: two timestamps within one
\* second and one in the next for (c1, d1), other pairs, and a record without a name
PageRecords ==
    {[client |-> "c1", domain |-> "d1", ts |-> 0],
     [client |-> "c1", domain |-> "d1", ts |-> 1],
     [client |-> "c1", domain |-> "d1", ts |-> 2],
     [client |-> "c1", domain |-> "d2", ts |-> 0],
     [client |-> "c2", domain |-> "d1", ts |-> 0],
     [client |-> "c1", domain |-> "", ts |-> 0]}

\* the zero storage.DNSQuery: no record is in hand
NoQuery == [client |-> "", domain |-> "", ts |-> 0]

NoStats == [total |-> 0, ok |-> 0, failed |-> 0, rateLimited |-> 0, batches |-> 0]

\* NewAnalyzer at time t: the state of a fresh Analyzer whose worker has set its timer
NewAnalyzer(t) ==
    /\ queryQueue' = <<>>
    /\ currentBatch' = <<>>
    /\ timerDue' = TimerReset(t)
    /\ firstAt' = ZeroTime
    /\ worker' = "run"
    /\ tasks' = <<>>
    /\ rateLimiter' = 0
    /\ requeues' = <<>>
    /\ stats' = NoStats
    /\ ctxDone' = FALSE

\* the state after construction, on a database whose bucket "whois_cache" is cache
InitWith(cache) ==
    /\ baselines = [c \in Clients |-> <<>>]
    /\ processed = [k \in QueryIDs |-> ZeroTime]
    /\ analyses = <<>>
    /\ anomalies = [k \in {} |-> 0]
    /\ pageLeft = 0
    /\ pollCur = [pc |-> "loop", q |-> NoQuery]
    /\ polls = 0
    /\ fetched = 0
    /\ queryQueue = <<>>
    /\ currentBatch = <<>>
    /\ timerDue = TimerReset(0)
    /\ worker = "run"
    /\ tasks = <<>>
    /\ rateLimiter = 0
    /\ requeues = <<>>
    /\ stats = NoStats
    /\ ctxDone = FALSE
    /\ supportsBatch \in BOOLEAN
    /\ now = 0
    /\ second = 0
    /\ restarts = 0
    /\ batchCall = [pc |-> "idle"]
    /\ submitCall = [pc |-> "idle"]
    /\ startCall = [pc |-> "idle"]
    /\ retryCall = [pc |-> "idle"]
    /\ mainPc = "run"
    /\ whoisCache = cache
    /\ whoisLog = <<>>
    /\ firstAt = ZeroTime
    /\ acceptedAtStop = {}
    /\ finalBatch = <<>>
    /\ requests = <<>>
    /\ blockRules = {}
    /\ lastWriter = [k \in {} |-> 0]
    /\ submitted = [p \in Pairs |-> 0]
    /\ calls = [k \in QueryIDs |-> 0]
    /\ flagged = [k \in QueryIDs |-> 0]
    /\ pollsAtStart = 0
    /\ baseAtStart = [c \in Clients |-> {}]
    /\ lastEnd = -1
    /\ pollLog = <<>>
    /\ pacing = [lastLookup |-> ZeroTime, sent |-> <<>>]

\* the process starts on a new database
Init == InitWith([d \in Domains |-> ZeroTime])

\* the process starts on a database whose WHOIS cache holds every domain, looked
\* up at time 0
InitWarm == InitWith([d \in Domains |-> 0])

\* fault: an error of poll ends Start, and main with it
AfterPollError_Return(pc, err) == IF err # "" THEN "signalled" ELSE pc

\* Poller.Start after poll has returned err: the error is logged and the loop goes
\* on; main stays in its select
AfterPollError(pc, err) == pc

\* what a turn of the loop of poll leaves alone
pollFrame == <<analyses, anomalies, polls, fetched, currentBatch, timerDue, worker, tasks,
               rateLimiter, requeues, stats, ctxDone, supportsBatch, now, second, restarts,
               callVars, downVars, whoisVars, pacing, firstAt, apiVars, pollsAtStart,
               baseAtStart, lastEnd>>

\* Poller.poll when FetchQueryLog returns an error: poll returns it
PollFetchFails ==
    /\ mainPc = "run"
    /\ pageLeft = 0
    /\ polls < MaxPolls
    /\ polls' = polls + 1
    /\ mainPc' = AfterPollError(mainPc, "failed to fetch query log")
    /\ pollLog' = Append(pollLog, [kind |-> "fetch", poll |-> polls + 1, left |-> 0,
                                   err |-> "failed to fetch query log"])
    /\ UNCHANGED <<storeVars, pageLeft, pollCur, fetched, dispVars, now, second, restarts,
                   callVars, acceptedAtStop, finalBatch, whoisVars, pacing, firstAt, apiVars,
                   histVars>>

\* Poller.poll up to the loop: a page of n records is fetched.  Nothing reads a
\* record of the page before the loop reaches it, so its content is drawn there.
PollFetch ==
    /\ mainPc = "run"
    /\ pageLeft = 0
    /\ polls < MaxPolls
    /\ \E n \in 0..PageLen :
          /\ fetched + n <= MaxRecords
          /\ pageLeft' = n
          /\ fetched' = fetched + n
    /\ polls' = polls + 1
    /\ UNCHANGED <<storeVars, pollCur, dispVars, now, second, restarts, callVars, downVars,
                   whoisVars, pacing, pollLog, firstAt, apiVars, histVars>>

\* the turn of the loop ends, with the error err of ProcessQuery logged if there is
\* one: with or without an error the loop goes on to the next record (continue)
EndTurn(err) ==
    /\ pageLeft' = pageLeft - 1
    /\ pollCur' = [pc |-> "loop", q |-> NoQuery]
    /\ pollLog' = IF err = "" THEN pollLog
                  ELSE Append(pollLog, [kind |-> "record", poll |-> polls,
                                        left |-> pageLeft - 1, err |-> err])

\* Poller.poll, a turn of the loop begins on record q: a record without a name is
\* skipped; for the others ProcessQuery is called and asks the store whether the
\* fingerprint is marked (HasSeenQuery)
PollRecord(q) ==
    /\ pageLeft > 0
    /\ pollCur.pc = "loop"
    /\ IF q.domain = ""
       THEN EndTurn("") /\ UNCHANGED calls
       ELSE /\ calls' = [calls EXCEPT ![QueryID(q)] = @ + 1]
            /\ IF HasSeenQuery(processed, QueryID(q))
               THEN EndTurn("")
               ELSE /\ pollCur' = [pc |-> "mark", q |-> q]
                    /\ UNCHANGED <<pageLeft, pollLog>>
    /\ UNCHANGED <<pollFrame, baselines, processed, queryQueue, submitted, flagged>>

\* the turn begins and HasSeenQuery returns an error
PollSeenFails(q) ==
    /\ pageLeft > 0
    /\ pollCur.pc = "loop"
    /\ q.domain # ""
    /\ calls' = [calls EXCEPT ![QueryID(q)] = @ + 1]
    /\ EndTurn("failed to check if query was seen")
    /\ UNCHANGED <<pollFrame, baselines, processed, queryQueue, submitted, flagged>>

\* ProcessQuery: MarkQueryProcessed
PollMark ==
    /\ pollCur.pc = "mark"
    /\ processed' = MarkQueryProcessed(processed, QueryID(pollCur.q), Instant)
    /\ pollCur' = [pollCur EXCEPT !.pc = "check"]
    /\ UNCHANGED <<pollFrame, baselines, queryQueue, pageLeft, pollLog, submitted, calls, flagged>>

\* MarkQueryProcessed returns an error
PollMarkFails ==
    /\ pollCur.pc = "mark"
    /\ EndTurn("failed to mark query as processed")
    /\ UNCHANGED <<pollFrame, baselines, processed, queryQueue, submitted, calls, flagged>>

\* ProcessQuery: HasDomainInBaseline, and the return; a record that is first-seen
\* is logged by LogAnomaly
PollCheck ==
    /\ pollCur.pc = "check"
    /\ IF HasDomainInBaseline(baselines, pollCur.q.client, pollCur.q.domain)
       THEN EndTurn("") /\ UNCHANGED flagged
       ELSE /\ flagged' = [flagged EXCEPT ![QueryID(pollCur.q)] = @ + 1]
            /\ pollCur' = [pollCur EXCEPT !.pc = "send"]
            /\ UNCHANGED <<pageLeft, pollLog>>
    /\ UNCHANGED <<pollFrame, baselines, processed, queryQueue, submitted, calls>>

\* HasDomainInBaseline returns an error
PollCheckFails ==
    /\ pollCur.pc = "check"
    /\ EndTurn("failed to check baseline")
    /\ UNCHANGED <<pollFrame, baselines, processed, queryQueue, submitted, calls, flagged>>

\* p.llmAnalyzer.AnalyzeAsync(query)
PollSubmit ==
    /\ pollCur.pc = "send"
    /\ queryQueue' = AnalyzeAsync(queryQueue, pollCur.q)
    /\ submitted' = [submitted EXCEPT ![<<pollCur.q.client, pollCur.q.domain>>] = @ + 1]
    /\ pollCur' = [pollCur EXCEPT !.pc = "add"]
    /\ UNCHANGED <<pollFrame, baselines, processed, pageLeft, pollLog, calls, flagged>>

\* p.analyzer.ApproveAnomaly: AddDomainToBaseline; the turn ends
PollAdd ==
    /\ pollCur.pc = "add"
    /\ baselines' = AddDomainToBaseline(baselines, pollCur.q.client, pollCur.q.domain)
    /\ EndTurn("")
    /\ UNCHANGED <<pollFrame, processed, queryQueue, submitted, calls, flagged>>

\* AddDomainToBaseline returns an error, which is logged; the turn ends
PollAddFails ==
    /\ pollCur.pc = "add"
    /\ EndTurn("")
    /\ UNCHANGED <<pollFrame, baselines, processed, queryQueue, submitted, calls, flagged>>

\* BoltStore.CleanOldProcessedQueries(olderThan), one transaction.  Nothing in the
\* program calls it: it is the operation the store offers to whoever maintains
\* the database, and no step of Next.
CleanProcessed ==
    /\ \E olderThan \in 0..Instant : \E later \in BOOLEAN :
          processed' = CleanOldProcessedQueries(processed, Instant - olderThan, later)
    /\ UNCHANGED <<baselines, analyses, anomalies, pollVars, dispVars, now, restarts, callVars, downVars, whoisVars, pacing, pollLog, second, firstAt, apiVars, histVars>>

\* the process ends and is started again on the same database file
Restart ==
    /\ restarts < MaxRestarts
    /\ restarts' = restarts + 1
    /\ pageLeft' = 0
    /\ pollCur' = [pc |-> "loop", q |-> NoQuery]
    /\ NewAnalyzer(now)
    /\ pacing' = [lastLookup |-> ZeroTime, sent |-> <<>>]
    /\ submitted' = [p \in Pairs |-> 0]
    /\ pollsAtStart' = polls
    /\ baseAtStart' = [c \in Clients |-> Range(baselines[c])]
    /\ lastEnd' = -1
    /\ requests' = [i \in DOMAIN requests |->
                        IF requests[i].pc = "done" THEN requests[i]
                        ELSE [requests[i] EXCEPT !.pc = "done", !.err = "connection lost"]]
    /\ mainPc' = "run"
    /\ acceptedAtStop' = {}
    /\ finalBatch' = <<>>
    /\ UNCHANGED <<storeVars, polls, fetched, supportsBatch, now, second, callVars, whoisVars,
                   pollLog, blockRules, lastWriter, calls, flagged>>

\* ------------------------------------------------------ provider replies
\* parsed response items for a query on domain d that pass validation
GoodItems(d) ==
    {[domain |-> d, classification |-> "Safe", explanation |-> "e", risk |-> 1, action |-> "Allow"],
     [domain |-> d, classification |-> "Suspicious", explanation |-> "e", risk |-> 5,
      action |-> "Investigate"],
     [domain |-> d, classification |-> "Malicious", explanation |-> "e", risk |-> 10,
      action |-> "Block"]}

\* items with one field out of its domain
BadFields(d) ==
    LET g == [domain |-> d, classification |-> "Suspicious", explanation |-> "e", risk |-> 5,
              action |-> "Investigate"]
    IN  {[g EXCEPT !.classification = "Unknown"], [g EXCEPT !.explanation = ""],
         [g EXCEPT !.risk = 0], [g EXCEPT !.risk = 11], [g EXCEPT !.action = "Ignore"]}

\* items that name no domain or another domain
BadDomains(d) ==
    {[x EXCEPT !.domain = e] : x \in GoodItems(d), e \in (Domains \cup {""}) \ {d}}

\* one item per query, in the order of the queries
RECURSIVE ItemSeqs(_)
ItemSeqs(queries) ==
    IF queries = <<>> THEN {<<>>}
    ELSE LET d == Head(queries).domain
         IN  {<<x>> \o rest : x \in GoodItems(d) \cup BadFields(d) \cup BadDomains(d),
                              rest \in ItemSeqs(Tail(queries))}

\* what a batch call for queries can end with: a failure, an array with one item
\* per query, or an array that is one item short or one item long
BatchReplies(queries) ==
    LET full == ItemSeqs(queries)
        good == {s \in full : \A i \in 1..Len(s) : s[i] \in GoodItems(queries[i].domain)}
    IN  Failures
        \cup {[kind |-> "text", items |-> s] : s \in full}
        \cup {[kind |-> "text", items |-> SubSeq(s, 1, Len(s) - 1)] : s \in good}
        \cup {[kind |-> "text", items |-> Append(s, s[Len(s)])] : s \in good}

\* what a single call for q can end with
SingleReplies(q) ==
    Failures \cup {[kind |-> "text", items |-> <<x>>] : x \in GoodItems(q.domain) \cup BadFields(q.domain)}

\* ------------------------------------------------------- Analyzer.worker
\* a processBatch call that has just been made: batch and final are its arguments;
\* k is the index of its loops, res what the provider returned, okc and failc are
\* successCount and failCount; wake is the instant its sleep in Lookup ends and
\* due the time its deferred sleep ends
NewTask(batch, final) ==
    [batch |-> batch, pc |-> "start", final |-> final, due |-> 0, wake |-> 0, k |-> 0,
     res |-> <<>>, okc |-> 0, failc |-> 0]

\* fault: the last query of the batch does not reach the goroutine
Spawn_DropLast(ts, batch, final) ==
    Append(ts, NewTask(SubSeq(batch, 1, Len(batch) - 1), final))

\* go a.processBatch(batch)
Spawn(ts, batch, final) == Append(ts, NewTask(batch, final))

\* case query := <-a.queryQueue
WorkerRecv ==
    /\ worker = "run"
    /\ queryQueue # <<>>
    /\ queryQueue' = Tail(queryQueue)
    /\ LET batch == Append(currentBatch, Head(queryQueue))
       IN  IF BatchFull(batch)
           THEN /\ currentBatch' = <<>>
                /\ firstAt' = ZeroTime
                /\ timerDue' = TimerReset(now)
                /\ tasks' = Spawn(tasks, batch, FALSE)
           ELSE /\ currentBatch' = batch
                /\ firstAt' = IF currentBatch = <<>> THEN now ELSE firstAt
                /\ UNCHANGED <<timerDue, tasks>>
    /\ UNCHANGED <<storeVars, pollVars, worker, rateLimiter, requeues, stats, ctxDone,
                   supportsBatch, now, second, restarts, callVars, downVars, whoisVars, pacing,
                   pollLog, apiVars, histVars>>

\* case <-a.batchTimer.C
WorkerTimer ==
    /\ worker = "run"
    /\ now >= timerDue
    /\ timerDue' = TimerReset(now)
    /\ IF currentBatch # <<>>
       THEN /\ tasks' = Spawn(tasks, currentBatch, FALSE)
            /\ currentBatch' = <<>>
            /\ firstAt' = ZeroTime
       ELSE UNCHANGED <<tasks, currentBatch, firstAt>>
    /\ UNCHANGED <<storeVars, pollVars, queryQueue, worker, rateLimiter, requeues, stats,
                   ctxDone, supportsBatch, now, second, restarts, callVars, downVars, whoisVars,
                   pacing, pollLog, apiVars, histVars>>

\* case <-a.ctx.Done(): the final batch is processed by the worker itself
WorkerShutdown ==
    /\ worker = "run"
    /\ ctxDone
    /\ IF currentBatch # <<>>
       THEN /\ tasks' = Spawn(tasks, currentBatch, TRUE)
            /\ worker' = "flush"
       ELSE /\ worker' = "done"
            /\ UNCHANGED tasks
    /\ finalBatch' = currentBatch
    /\ UNCHANGED <<storeVars, pollVars, queryQueue, currentBatch, timerDue, rateLimiter,
                   requeues, stats, ctxDone, supportsBatch, now, second, restarts, callVars,
                   mainPc, acceptedAtStop, whoisVars, pacing, pollLog, firstAt, apiVars,
                   histVars>>

\* Analyzer.Stop up to wg.Wait: cancel().  The queries the Analyzer holds are
\* noted: in the queue, in the accumulator, and in the batches whose processBatch
\* call has not come to its end.
Cancel ==
    /\ ~ctxDone
    /\ ctxDone' = TRUE
    /\ acceptedAtStop' =
          Range(queryQueue) \cup Range(currentBatch)
              \cup UNION {Range(tasks[i].batch) :
                              i \in {j \in 1..Len(tasks) : tasks[j].pc # "sleep"}}
    /\ UNCHANGED <<storeVars, pollVars, queryQueue, currentBatch, timerDue, worker, tasks,
                   rateLimiter, requeues, stats, supportsBatch, now, second, restarts, callVars,
                   finalBatch, whoisVars, pacing, pollLog, firstAt, apiVars, histVars>>

\* ---------------------------------------------------------- WHOISService
\* strings.ToLower(strings.TrimSuffix(domain, "."))
NormalizeDomain(name) == IF name \in {"D1", "d1."} THEN "d1" ELSE name

\* WHOISService.getFromCache: an entry that is not older than the TTL
GetFromCache(cache, domain, t) ==
    cache[domain] # ZeroTime /\ t - cache[domain] <= WhoisCacheTTL

\* what the lookup outside can give: parsed data, an error of whois.Whois, an
\* error of the parser
WhoisOutcomes == {"ok", "lookup failed", "parse failed"}

\* a history that keeps its first n entries
Logged(log, n, entry) == IF Len(log) < n THEN Append(log, entry) ELSE log

\* ------------------------------------------------- Analyzer.processBatch
\* what a step of a processBatch call leaves alone
taskFrame == <<baselines, processed, pollVars, queryQueue, timerDue, ctxDone, supportsBatch,
               now, restarts, downVars, pollLog, firstAt, apiVars, submitted, calls, flagged,
               pollsAtStart, baseAtStart, callVars>>

\* the call of processBatch returns: its goroutine ends; the worker, if it made the
\* call itself, clears currentBatch and returns
TaskReturn(i) ==
    /\ tasks' = RemoveAt(tasks, i)
    /\ IF tasks[i].final
       THEN worker' = "done" /\ currentBatch' = <<>>
       ELSE UNCHANGED <<worker, currentBatch>>

\* processBatch up to the loop over the queries: the batch is counted under a.mu
TaskStart(i) ==
    /\ tasks[i].pc = "start"
    /\ stats' = [stats EXCEPT !.batches = @ + 1]
    /\ tasks' = [tasks EXCEPT ![i].pc = "whois", ![i].k = 1]
    /\ UNCHANGED <<taskFrame, second, analyses, anomalies, currentBatch, worker, rateLimiter,
                   requeues, whoisVars, pacing, lastEnd>>

\* the lookup of the k-th query has returned: the loop goes to the next query, or
\* processBatch goes on to the select
AfterLookup(t) ==
    IF t.k < Len(t.batch)
    THEN [t EXCEPT !.pc = "whois", !.k = @ + 1, !.wake = 0]
    ELSE [t EXCEPT !.pc = "wait", !.k = 0, !.wake = 0]

\* a.whoisService.Lookup(query.Domain) up to the return of getFromCache: the cache
\* is read (found tells whether GetCachedWHOIS gives what the bucket holds; its
\* error counts as a miss), and an entry within the TTL is returned
\* (the counters cacheHits, cacheMisses and lookupCount, which only GetStats
\* reads, are left out)
TaskLookup(i, found) ==
    /\ tasks[i].pc = "whois"
    /\ LET domain == NormalizeDomain(tasks[i].batch[tasks[i].k].domain)
           hit == found /\ GetFromCache(whoisCache, domain, now)
       IN  /\ whoisLog' = IF hit THEN whoisLog
                         ELSE Logged(whoisLog, MaxLookups, [domain |-> domain, at |-> now])
           /\ tasks' = [tasks EXCEPT ![i] = IF hit THEN AfterLookup(@)
                                            ELSE [@ EXCEPT !.pc = "pace"]]
    /\ UNCHANGED <<taskFrame, second, analyses, anomalies, currentBatch, worker, rateLimiter,
                   requeues, stats, whoisCache, pacing, lastEnd>>

\* Lookup after a miss, the rate limiting block: lastLookup is read without a lock
\* and the sleep, if one is due, begins
TaskPace(i) ==
    /\ tasks[i].pc = "pace"
    /\ LET elapsed == Instant - pacing.lastLookup
           sleepTime == IF pacing.lastLookup # ZeroTime /\ elapsed < RateLimitDelay
                        THEN RateLimitDelay - elapsed ELSE 0
       IN  tasks' = [tasks EXCEPT ![i].pc = "dial", ![i].wake = Instant + sleepTime]
    /\ UNCHANGED <<taskFrame, second, analyses, anomalies, currentBatch, worker, rateLimiter,
                   requeues, stats, whoisVars, pacing, lastEnd>>

\* the sleep is over: s.lastLookup = time.Now(), written without a lock, then
\* whois.Whois(domain) is called
TaskWhoisSend(i) ==
    /\ tasks[i].pc = "dial"
    /\ Instant >= tasks[i].wake
    /\ pacing' = [lastLookup |-> Instant, sent |-> Logged(pacing.sent, MaxSends, Instant)]
    /\ tasks' = [tasks EXCEPT ![i].pc = "query", ![i].wake = 0]
    /\ UNCHANGED <<taskFrame, second, analyses, anomalies, currentBatch, worker, rateLimiter,
                   requeues, stats, whoisVars, lastEnd>>

\* whois.Whois and the parser have returned: only a parsed result is written to
\* the cache (saved tells whether CacheWHOIS succeeds), and Lookup returns
TaskWhoisReply(i, outcome, saved) ==
    /\ tasks[i].pc = "query"
    /\ LET domain == NormalizeDomain(tasks[i].batch[tasks[i].k].domain)
       IN  whoisCache' = IF outcome = "ok" /\ saved
                         THEN [whoisCache EXCEPT ![domain] = now]
                         ELSE whoisCache
    /\ tasks' = [tasks EXCEPT ![i] = AfterLookup(@)]
    /\ UNCHANGED <<taskFrame, second, analyses, anomalies, currentBatch, worker, rateLimiter,
                   requeues, stats, whoisLog, pacing, lastEnd>>

\* fault: the channel takes any number of tokens
TokenFree_Always(held) == TRUE

\* whether a send on rateLimiter, a channel of capacity 1 that holds held tokens,
\* can proceed
TokenFree(held) == held = 0

\* case a.rateLimiter <- struct{}{}: the token is taken
TaskAcquire(i) ==
    /\ tasks[i].pc = "wait"
    /\ TokenFree(rateLimiter)
    /\ rateLimiter' = 1
    /\ tasks' = [tasks EXCEPT ![i].pc = "call", ![i].k = 1]
    /\ UNCHANGED <<taskFrame, second, analyses, anomalies, currentBatch, worker, requeues,
                   stats, whoisVars, pacing, lastEnd>>

\* case <-a.ctx.Done(): return
TaskCancelled(i) ==
    /\ tasks[i].pc = "wait"
    /\ ctxDone
    /\ TaskReturn(i)
    /\ UNCHANGED <<taskFrame, second, analyses, anomalies, rateLimiter, requeues, stats,
                   whoisVars, pacing, lastEnd>>

\* the provider is called: processBatchWithAPI counts the whole batch under a.mu
\* before AnalyzeBatch, the one-by-one loop counts the k-th query before Analyze
TaskCall(i) ==
    /\ tasks[i].pc = "call"
    /\ stats' = [stats EXCEPT !.total = @ + (IF supportsBatch THEN Len(tasks[i].batch) ELSE 1)]
    /\ tasks' = [tasks EXCEPT ![i].pc = "api"]
    /\ UNCHANGED <<taskFrame, second, analyses, anomalies, currentBatch, worker, rateLimiter,
                   requeues, whoisVars, pacing, lastEnd>>

\* processBatch returns at time t: the deferred function begins its sleep
Returning(t, at) ==
    [t EXCEPT !.pc = "sleep", !.due = ReleaseDue(at), !.k = 0, !.res = <<>>, !.okc = 0,
              !.failc = 0]

\* the queries that reach the Analyzer
Queries == {q \in PageRecords : q.domain # ""}

\* BatchReplies, for the batches the worker forms, and SingleReplies as tables
BatchRepliesTo == [queries \in SeqsUpTo(Queries, BatchSize) \ {<<>>} |-> BatchReplies(queries)]
SingleRepliesTo == [q \in Queries |-> SingleReplies(q)]

\* what the provider call of the task can end with; under a cancelled context
\* every call fails
RepliesOf(t) ==
    IF ctxDone THEN {[kind |-> "error", items |-> <<>>]}
    ELSE IF supportsBatch THEN BatchRepliesTo[t.batch]
    ELSE SingleRepliesTo[t.batch[t.k]]

\* a.provider.AnalyzeBatch returns and processBatchWithAPI handles an error: a
\* throttled batch is counted and every query handed to a requeue goroutine, any
\* other error counts the batch as failed; the analyses of a success are kept for
\* the result loop.  The conversion loop of AnalyzeBatch passes into the next
\* second nowhere (j = 0) or before the j-th response.
BatchReply(i, reply, j) ==
    LET t == tasks[i]
        n == Len(t.batch)
        r == AnalyzeBatch(t.batch, reply, ItemTimes(n, Instant, j))
    IN  /\ supportsBatch
        /\ j \in {0} \cup 2..n
        /\ IF j = 0 THEN second' = second ELSE second < MaxSeconds /\ second' = second + 1
        /\ IF IsRateLimited(r.err)
           THEN /\ stats' = [stats EXCEPT !.rateLimited = @ + 1, !.failed = @ + n]
                /\ requeues' = requeues \o RequeueFrom(t.batch, 1, now)
                /\ tasks' = [tasks EXCEPT ![i] = Returning(@, now)]
           ELSE IF r.err # ""
           THEN /\ stats' = [stats EXCEPT !.failed = @ + n]
                /\ tasks' = [tasks EXCEPT ![i] = Returning(@, now)]
                /\ UNCHANGED requeues
           ELSE /\ tasks' = [tasks EXCEPT ![i].pc = "save", ![i].k = 1, ![i].res = r.analyses]
                /\ UNCHANGED <<stats, requeues>>

\* a.provider.Analyze for the k-th query returns and the loop handles an error:
\* throttling counts the queries from the k-th on as failed, hands them to requeue
\* goroutines and ends processBatch; any other error counts one failure and the
\* loop goes on
SingleReply(i, reply, j) ==
    LET t == tasks[i]
        n == Len(t.batch)
        r == Analyze(t.batch[t.k], reply, Instant)
    IN  /\ ~supportsBatch
        /\ j = 0
        /\ second' = second
        /\ IF IsRateLimited(r.err)
           THEN /\ stats' = [stats EXCEPT !.rateLimited = @ + 1, !.failed = @ + (n - (t.k - 1))]
                /\ requeues' = requeues \o RequeueFrom(t.batch, t.k, now)
                /\ tasks' = [tasks EXCEPT ![i] = Returning(@, now)]
           ELSE IF r.err # ""
           THEN /\ stats' = [stats EXCEPT !.failed = @ + 1]
                /\ tasks' = [tasks EXCEPT ![i] =
                                IF t.k < n THEN [@ EXCEPT !.pc = "call", !.k = @ + 1]
                                ELSE Returning(@, now)]
                /\ UNCHANGED requeues
           ELSE /\ tasks' = [tasks EXCEPT ![i].pc = "save", ![i].res = r.analyses]
                /\ UNCHANGED <<stats, requeues>>

\* the provider call of the task returns with reply: what it does to the program
TaskReplyWith(i, reply, j) ==
    /\ tasks[i].pc = "api"
    /\ reply \in RepliesOf(tasks[i])
    /\ BatchReply(i, reply, j) \/ SingleReply(i, reply, j)
    /\ lastEnd' = now
    /\ UNCHANGED <<baselines, processed, pollVars, queryQueue, timerDue, ctxDone, supportsBatch,
                   now, restarts, downVars, pollLog, firstAt, apiVars, submitted, calls,
                   flagged, pollsAtStart, baseAtStart, analyses, anomalies, currentBatch,
                   worker, rateLimiter,
                   whoisVars, pacing>>

\* the provider call of the task returns
TaskReply(i, j) ==
    /\ tasks[i].pc = "api"
    /\ \E reply \in RepliesOf(tasks[i]) : TaskReplyWith(i, reply, j)
    /\ UNCHANGED callVars

\* the provider call of the task returns, and the call is noted in batchCall with
\* its queries and what it was answered
TaskReplyNoted(i) ==
    /\ tasks[i].pc = "api"
    /\ \E reply \in RepliesOf(tasks[i]) :
          /\ TaskReplyWith(i, reply, 0)
          /\ batchCall' = [pc |-> "answered", queries |-> IF supportsBatch THEN tasks[i].batch
                                       ELSE <<tasks[i].batch[tasks[i].k]>>,
                           reply |-> reply]
    /\ UNCHANGED <<submitCall, startCall, retryCall>>

\* the Analysis the result loop of the task is at
Current(t) == IF supportsBatch THEN t.res[t.k] ELSE t.res[1]

\* the turn of the result loop ends with okd more in successCount and faild more
\* in failCount: processBatchWithAPI goes to the next Analysis and tallies after
\* the last one, the one-by-one loop tallies after each
AfterItem(t, okd, faild) ==
    IF supportsBatch /\ t.k < Len(t.res)
    THEN [t EXCEPT !.pc = "save", !.k = @ + 1, !.okc = @ + okd, !.failc = @ + faild]
    ELSE [t EXCEPT !.pc = "count", !.okc = @ + okd, !.failc = @ + faild]

\* the result loop, a.store.SaveAnalysis(analysis): one transaction, which the
\* store performs (ok) or fails.  processBatchWithAPI skips a nil Analysis and
\* ends the turn when the store fails; the one-by-one loop logs the failure and
\* goes on to the Anomaly.
TaskSaveAnalysis(i, ok) ==
    /\ tasks[i].pc = "save"
    /\ LET t == tasks[i]
           a == Current(t)
       IN  IF supportsBatch /\ a = NilAnalysis
           THEN /\ tasks' = [tasks EXCEPT ![i] = AfterItem(@, 0, 1)]
                /\ UNCHANGED analyses
           ELSE /\ analyses' = IF ok THEN SaveAnalysis(analyses, a) ELSE analyses
                /\ tasks' = [tasks EXCEPT ![i] =
                                IF supportsBatch /\ ~ok THEN AfterItem(@, 0, 1)
                                ELSE IF IsAnomalous(a) THEN [@ EXCEPT !.pc = "anom"]
                                ELSE AfterItem(@, 1, 0)]
    /\ UNCHANGED <<taskFrame, second, anomalies, currentBatch, worker, rateLimiter, requeues,
                   stats, whoisVars, pacing, lastEnd>>

\* the result loop, a.store.SaveAnomaly(&anomaly): one transaction, which the store
\* performs (ok) or fails; a failure is logged and the turn counts as a success
TaskSaveAnomaly(i, ok) ==
    /\ tasks[i].pc = "anom"
    /\ anomalies' = IF ok THEN SaveAnomaly(anomalies, AnomalyOf(Current(tasks[i])))
                    ELSE anomalies
    /\ tasks' = [tasks EXCEPT ![i] = AfterItem(@, 1, 0)]
    /\ UNCHANGED <<taskFrame, second, analyses, currentBatch, worker, rateLimiter, requeues,
                   stats, whoisVars, pacing, lastEnd>>

\* the counters are raised under a.mu: processBatchWithAPI adds successCount and
\* failCount and returns; the one-by-one loop adds one success and goes to the
\* next query, or returns after the last
TaskCount(i) ==
    /\ tasks[i].pc = "count"
    /\ LET t == tasks[i]
       IN  IF supportsBatch
           THEN /\ stats' = [stats EXCEPT !.ok = @ + t.okc, !.failed = @ + t.failc]
                /\ tasks' = [tasks EXCEPT ![i] = Returning(@, now)]
           ELSE /\ stats' = [stats EXCEPT !.ok = @ + 1]
                /\ tasks' = [tasks EXCEPT ![i] =
                                IF t.k < Len(t.batch)
                                THEN [@ EXCEPT !.pc = "call", !.k = @ + 1, !.res = <<>>,
                                               !.okc = 0, !.failc = 0]
                                ELSE Returning(@, now)]
    /\ UNCHANGED <<taskFrame, second, analyses, anomalies, currentBatch, worker, rateLimiter,
                   requeues, whoisVars, pacing, lastEnd>>

\* fault: the token stays in the channel
TokenTaken_Leak(held) == held

\* <-a.rateLimiter: what the channel holds after the receive
TokenTaken(held) == held - 1

\* the deferred function: after time.Sleep(a.requestDelay) the token is given back
TaskRelease(i) ==
    /\ tasks[i].pc = "sleep"
    /\ now >= tasks[i].due
    /\ rateLimiter' = TokenTaken(rateLimiter)
    /\ TaskReturn(i)
    /\ UNCHANGED <<taskFrame, second, analyses, anomalies, requeues, stats, whoisVars, pacing,
                   lastEnd>>

\* a requeue goroutine wakes up: a.AnalyzeAsync(q)
RequeueFire(i) ==
    /\ requeues[i].due <= now
    /\ queryQueue' = AnalyzeAsync(queryQueue, requeues[i].q)
    /\ requeues' = RemoveAt(requeues, i)
    /\ UNCHANGED <<storeVars, pollVars, currentBatch, timerDue, worker, tasks, rateLimiter,
                   stats, ctxDone, supportsBatch, now, second, restarts, callVars, downVars,
                   whoisVars, pacing, pollLog, firstAt, apiVars, histVars>>

\* ------------------------------------------------------------ API server
\* the actions a request path can name; the handler knows the first two
Actions == {"approve", "block", "dismiss"}

\* the ids a request path can name
RequestIDs == {<<"c1", "d1", 0>>, <<"c1", "d2", 0>>}

\* the status approveAnomaly and blockAnomaly write
StatusOf(action) == IF action = "approve" THEN "approved" ELSE "blocked"

\* the response of handleAnomalyAction: its status code, and the error that
\* approveAnomaly or blockAnomaly returned or the message of an early rejection
Respond(req, code, err) == [req EXCEPT !.pc = "done", !.code = code, !.err = err]

\* what a step of a request leaves alone
apiFrame == <<processed, analyses, pollVars, dispVars, now, second, restarts, callVars,
              downVars, whoisVars, pacing, pollLog, firstAt, histVars>>

\* Server.handleAnomalyAction up to the switch: the action is validated and the
\* anomaly is read
HandleAnomalyAction(action, id) ==
    /\ Len(requests) < MaxRequests
    /\ LET req == [action |-> action, id |-> id, pc |-> "act", code |-> 0, err |-> ""]
       IN  requests' = Append(requests,
               IF action \notin {"approve", "block"} THEN Respond(req, 400, "Invalid action")
               ELSE IF ~GetAnomalyByID(anomalies, id) THEN Respond(req, 404, "Anomaly not found")
               ELSE req)
    /\ UNCHANGED <<apiFrame, baselines, anomalies, blockRules, lastWriter>>

\* Server.approveAnomaly, first step: AddDomainToBaseline, which the store
\* performs (ok) or fails
ApproveAnomalyAdd(i, ok) ==
    /\ requests[i].pc = "act"
    /\ requests[i].action = "approve"
    /\ LET a == anomalies[requests[i].id]
       IN  baselines' = IF ok THEN AddDomainToBaseline(baselines, a.client, a.domain)
                        ELSE baselines
    /\ requests' = [requests EXCEPT ![i] =
                        IF ok THEN [@ EXCEPT !.pc = "update"]
                        ELSE Respond(@, 500, "failed to add domain to baseline")]
    /\ UNCHANGED <<apiFrame, anomalies, blockRules, lastWriter>>

\* fault: the answer of the upstream is not looked at
BlockDomain_AlwaysNil(answer) == TRUE

\* AdGuardClient.BlockDomain: nil exactly when the upstream answers 200
BlockDomain(answer) == answer = "ok"

\* Server.blockAnomaly, first step: BlockDomain.  AdGuard Home answers add_url with
\* 200, with a rejection of a filter it already has, or not at all.
BlockAnomalyRule(i, answer) ==
    /\ requests[i].pc = "act"
    /\ requests[i].action = "block"
    /\ answer \in (IF anomalies[requests[i].id].domain \in blockRules
                   THEN {"ok", "duplicate", "unreachable"} ELSE {"ok", "unreachable"})
    /\ blockRules' = IF answer = "ok"
                     THEN blockRules \cup {anomalies[requests[i].id].domain}
                     ELSE blockRules
    /\ requests' = [requests EXCEPT ![i] =
                        IF BlockDomain(answer) THEN [@ EXCEPT !.pc = "update"]
                        ELSE Respond(@, 500, "failed to block domain in AdGuard Home")]
    /\ UNCHANGED <<apiFrame, baselines, anomalies, lastWriter>>

\* Server.approveAnomaly and blockAnomaly, second step: UpdateAnomalyStatus, one
\* transaction that commits (ok) or fails, and the response
AnomalyStatusUpdate(i, ok) ==
    /\ requests[i].pc = "update"
    /\ anomalies' = IF ok
                    THEN UpdateAnomalyStatus(anomalies, requests[i].id, StatusOf(requests[i].action))
                    ELSE anomalies
    /\ lastWriter' = IF ok
                     THEN [k \in DOMAIN lastWriter \cup {requests[i].id} |->
                              IF k = requests[i].id THEN i ELSE lastWriter[k]]
                     ELSE lastWriter
    /\ requests' = [requests EXCEPT ![i] =
                        IF ok THEN Respond(@, 200, "")
                        ELSE Respond(@, 500, "failed to update anomaly status")]
    /\ UNCHANGED <<apiFrame, baselines, blockRules>>

\* ------------------------------------------------------------------ main
\* the process has not ended
Alive == mainPc # "closed"

\* main: a signal arrives and cancel() is called: the context of the Poller is done
Signal ==
    /\ mainPc = "run"
    /\ mainPc' = "signalled"
    /\ UNCHANGED <<storeVars, pollVars, dispVars, now, second, restarts, callVars, apiVars,
                   histVars, acceptedAtStop, finalBatch, whoisVars, pacing, pollLog, firstAt>>

\* main returns after its sleep of 2 s: the deferred llmAnalyzer.Stop() is called
MainStop ==
    /\ mainPc = "signalled"
    /\ mainPc' = "stopping"
    /\ Cancel

\* Analyzer.Stop returns when the worker has ended, and the deferred store.Close()
\* runs; then the process ends
StoreClose ==
    /\ mainPc = "stopping"
    /\ worker = "done"
    /\ mainPc' = "closed"
    /\ UNCHANGED <<storeVars, pollVars, dispVars, now, second, restarts, callVars, apiVars,
                   histVars, acceptedAtStop, finalBatch, whoisVars, pacing, pollLog, firstAt>>

\* ----------------------------------------------------------------- clock
\* a unit of time passes, but not past the wake-up of a goroutine in its deferred
\* or requeue sleep or past a due timer, and not while a sleep in Lookup is over
Tick ==
    /\ now < MaxTicks
    /\ \A i \in 1..Len(tasks) : tasks[i].pc = "dial" => tasks[i].wake > Instant
    /\ \A i \in 1..Len(requeues) : requeues[i].due > now
    /\ \A i \in 1..Len(tasks) : tasks[i].pc = "sleep" => tasks[i].due > now
    /\ worker = "run" => timerDue > now
    /\ now' = now + 1
    /\ second' = 0
    /\ UNCHANGED <<storeVars, pollVars, dispVars, restarts, callVars, downVars, whoisVars,
                   pacing, pollLog, firstAt, apiVars, histVars>>

\* a second passes within the unit, but not while a sleep in Lookup is over
SecondTick ==
    /\ second < MaxSeconds
    /\ \A i \in 1..Len(tasks) : tasks[i].pc = "dial" => tasks[i].wake > Instant
    /\ second' = second + 1
    /\ UNCHANGED <<storeVars, pollVars, dispVars, now, restarts, callVars, downVars, whoisVars,
                   pacing, pollLog, firstAt, apiVars, histVars>>

\* The program: while the process has not ended its goroutines take their steps
\* and time passes; the API server takes requests until main stops it; the process
\* can be started again at any time.
Next ==
    \/ Alive /\ PollFetch
    \/ Alive /\ PollFetchFails
    \/ Alive /\ \E q \in PageRecords : PollRecord(q)
    \/ Alive /\ \E q \in PageRecords : PollSeenFails(q)
    \/ Alive /\ PollMark
    \/ Alive /\ PollMarkFails
    \/ Alive /\ PollCheck
    \/ Alive /\ PollCheckFails
    \/ Alive /\ PollSubmit
    \/ Alive /\ PollAdd
    \/ Alive /\ PollAddFails
    \/ Restart
    \/ Alive /\ WorkerRecv
    \/ Alive /\ WorkerTimer
    \/ Alive /\ WorkerShutdown
    \/ Alive /\ \E i \in 1..Len(tasks) : TaskStart(i)
    \/ Alive /\ \E i \in 1..Len(tasks) : \E found \in BOOLEAN : TaskLookup(i, found)
    \/ Alive /\ \E i \in 1..Len(tasks) : TaskPace(i)
    \/ Alive /\ \E i \in 1..Len(tasks) : TaskWhoisSend(i)
    \/ Alive /\ \E i \in 1..Len(tasks) : \E outcome \in WhoisOutcomes : \E saved \in BOOLEAN :
          TaskWhoisReply(i, outcome, saved)
    \/ Alive /\ \E i \in 1..Len(tasks) : TaskAcquire(i)
    \/ Alive /\ \E i \in 1..Len(tasks) : TaskCancelled(i)
    \/ Alive /\ \E i \in 1..Len(tasks) : TaskCall(i)
    \/ Alive /\ \E i \in 1..Len(tasks) : \E j \in 0..BatchSize : TaskReply(i, j)
    \/ Alive /\ \E i \in 1..Len(tasks) : \E ok \in BOOLEAN : TaskSaveAnalysis(i, ok)
    \/ Alive /\ \E i \in 1..Len(tasks) : \E ok \in BOOLEAN : TaskSaveAnomaly(i, ok)
    \/ Alive /\ \E i \in 1..Len(tasks) : TaskCount(i)
    \/ Alive /\ \E i \in 1..Len(tasks) : TaskRelease(i)
    \/ Alive /\ \E i \in 1..Len(requeues) : RequeueFire(i)
    \/ mainPc = "run" /\ \E action \in Actions : \E id \in RequestIDs :
          HandleAnomalyAction(action, id)
    \/ Alive /\ \E i \in 1..Len(requests) : \E ok \in BOOLEAN : ApproveAnomalyAdd(i, ok)
    \/ Alive /\ \E i \in 1..Len(requests) : \E answer \in {"ok", "duplicate", "unreachable"} :
          BlockAnomalyRule(i, answer)
    \/ Alive /\ \E i \in 1..Len(requests) : \E ok \in BOOLEAN : AnomalyStatusUpdate(i, ok)
    \/ Signal
    \/ MainStop
    \/ StoreClose
    \/ Alive /\ Tick
    \/ Alive /\ SecondTick

\* the whole program
Spec == Init /\ [][Next]_vars

\* ------------------------------------------------------------- the parts
\* The detector: the Poller, the BaselineAnalyzer and the store, whose calls can
\* each return an error, over restarts.  The program never deletes a mark
\* (CleanOldProcessedQueries has no caller).
NextDetector ==
    \/ PollFetch
    \/ PollFetchFails
    \/ \E q \in PageRecords : PollRecord(q)
    \/ \E q \in PageRecords : PollSeenFails(q)
    \/ PollMark
    \/ PollMarkFails
    \/ PollCheck
    \/ PollCheckFails
    \/ PollSubmit
    \/ PollAdd
    \/ PollAddFails
    \/ Restart

SpecDetector == Init /\ [][NextDetector]_vars

\* The Poller on a store and an upstream that can fail at every call.
NextPoller ==
    \/ PollFetch
    \/ PollFetchFails
    \/ \E q \in PageRecords : PollRecord(q)
    \/ \E q \in PageRecords : PollSeenFails(q)
    \/ PollMark
    \/ PollMarkFails
    \/ PollCheck
    \/ PollCheckFails
    \/ PollSubmit
    \/ PollAdd
    \/ PollAddFails

SpecPoller == Init /\ [][NextPoller]_vars

\* the records of one instant
InstantRecords == {q \in PageRecords : q.ts = 0}

\* A tick of the clock when it stands at MaxTicks: the clock keeps its value and
\* every time that is waited for comes one tick nearer.
Rebase ==
    /\ now = MaxTicks
    /\ \A i \in 1..Len(requeues) : requeues[i].due > now
    /\ \A i \in 1..Len(tasks) : tasks[i].pc = "sleep" => tasks[i].due > now
    /\ worker = "run" => timerDue > now
    /\ tasks' = [i \in DOMAIN tasks |->
                    IF tasks[i].pc = "sleep" THEN [tasks[i] EXCEPT !.due = @ - 1] ELSE tasks[i]]
    /\ requeues' = [i \in DOMAIN requeues |-> [requeues[i] EXCEPT !.due = @ - 1]]
    /\ timerDue' = timerDue - 1
    /\ firstAt' = IF firstAt = ZeroTime THEN ZeroTime ELSE firstAt - 1
    /\ lastEnd' = IF lastEnd <= 0 THEN lastEnd ELSE lastEnd - 1
    /\ UNCHANGED <<storeVars, pollVars, queryQueue, currentBatch, worker, rateLimiter, stats,
                   ctxDone, supportsBatch, now, second, restarts, callVars, downVars, whoisVars,
                   pacing, pollLog, apiVars, submitted, calls, flagged, pollsAtStart,
                   baseAtStart>>

\* the processBatch call that stands at place i takes the token
TaskAcquireAt(i) == i <= Len(tasks) /\ TaskAcquire(i)

\* the replies of a provider whose verdicts are all of the classifications C: the
\* replies AnalyzeBatch or Analyze does not accept, and the accepted ones with
\* such verdicts
RepliesWithin(t, C) ==
    {r \in RepliesOf(t) :
        (IF supportsBatch
         THEN AnalyzeBatch(t.batch, r, ItemTimes(Len(t.batch), 0, 0)).err = ""
         ELSE Analyze(t.batch[t.k], r, 0).err = "")
        => \A k \in 1..Len(r.items) : r.items[k].classification \in C}

\* the provider call of the task returns with verdicts of the classifications C
TaskReplyWithin(i, C, j) ==
    /\ tasks[i].pc = "api"
    /\ \E reply \in RepliesWithin(tasks[i], C) : TaskReplyWith(i, reply, j)
    /\ UNCHANGED callVars

\* the provider call of the task returns from a provider that finds every domain
\* safe and throttles MaxThrottles batches at most
CalmReply(i) ==
    /\ tasks[i].pc = "api"
    /\ \E reply \in RepliesWithin(tasks[i], {"Safe"}) : TaskReplyWith(i, reply, 0)
    /\ stats'.rateLimited <= MaxThrottles
    /\ UNCHANGED callVars

\* the records of one client and one instant
ClientRecords == {q \in InstantRecords : q.client = "c1" /\ q.domain # ""}

\* The pipeline of a process that is not stopped, after one poll, with a clock
\* that runs without end, a calm provider, a store that performs every write and a
\* WHOIS cache that holds every domain.  A poll is over within the unit of the
\* clock in which it began.
NextForever ==
    \/ polls = 0 /\ PollFetch
    \/ \E q \in ClientRecords : PollRecord(q)
    \/ PollMark
    \/ PollCheck
    \/ PollSubmit
    \/ PollAdd
    \/ WorkerRecv
    \/ WorkerTimer
    \/ \E i \in 1..Len(tasks) : TaskStart(i)
    \/ \E i \in 1..Len(tasks) : TaskLookup(i, TRUE)
    \/ \E i \in 1..MaxRecords : TaskAcquireAt(i)
    \/ \E i \in 1..Len(tasks) : TaskCall(i)
    \/ \E i \in 1..Len(tasks) : CalmReply(i)
    \/ \E i \in 1..Len(tasks) : TaskSaveAnalysis(i, TRUE)
    \/ \E i \in 1..Len(tasks) : TaskCount(i)
    \/ \E i \in 1..Len(tasks) : TaskRelease(i)
    \/ \E i \in 1..Len(requeues) : RequeueFire(i)
    \/ pageLeft = 0 /\ Tick
    \/ pageLeft = 0 /\ Rebase

\* The loop of a poll takes its turns; time passes; a timer that is due fires; a provider call returns (its context has
\* a deadline) and its results are stored and counted; the deferred release runs;
\* and a goroutine blocked in the send on rateLimiter is served in its turn
\* (blocked senders of a channel are queued).
SpecForever ==
    /\ InitWarm
    /\ [][NextForever]_vars
    /\ WF_vars(\E q \in ClientRecords : PollRecord(q))
    /\ WF_vars(PollMark)
    /\ WF_vars(PollCheck)
    /\ WF_vars(PollSubmit)
    /\ WF_vars(PollAdd)
    /\ WF_vars(pageLeft = 0 /\ Tick)
    /\ WF_vars(pageLeft = 0 /\ Rebase)
    /\ WF_vars(WorkerTimer)
    /\ WF_vars(\E i \in 1..Len(requeues) : RequeueFire(i))
    /\ WF_vars(\E i \in 1..Len(tasks) : TaskCall(i))
    /\ WF_vars(\E i \in 1..Len(tasks) : CalmReply(i))
    /\ WF_vars(\E i \in 1..Len(tasks) : TaskSaveAnalysis(i, TRUE))
    /\ WF_vars(\E i \in 1..Len(tasks) : TaskCount(i))
    /\ WF_vars(\E i \in 1..Len(tasks) : TaskRelease(i))
    /\ \A i \in 1..MaxRecords : SF_vars(TaskAcquireAt(i))

\* The pipeline of one process that is not stopped: the Poller feeds the Analyzer,
\* whose worker, batches and requeue goroutines run against the clock.
NextPipeline ==
    \/ PollFetch
    \/ \E q \in {r \in InstantRecords : r.domain # ""} : PollRecord(q)
    \/ PollMark
    \/ PollCheck
    \/ PollSubmit
    \/ PollAdd
    \/ WorkerRecv
    \/ WorkerTimer
    \/ \E i \in 1..Len(tasks) : TaskStart(i)
    \/ \E i \in 1..Len(tasks) : TaskLookup(i, TRUE)
    \/ \E i \in 1..Len(tasks) : TaskAcquire(i)
    \/ \E i \in 1..Len(tasks) : TaskCall(i)
    \/ \E i \in 1..Len(tasks) : TaskReplyWithin(i, {"Safe"}, 0)
    \/ \E i \in 1..Len(tasks) : TaskSaveAnalysis(i, TRUE)
    \/ \E i \in 1..Len(tasks) : TaskCount(i)
    \/ \E i \in 1..Len(tasks) : TaskRelease(i)
    \/ \E i \in 1..Len(requeues) : RequeueFire(i)
    \/ Tick

SpecPipeline == InitWarm /\ [][NextPipeline]_vars

\* Review: what happens within one instant of the clock.  Every call ProcessQuery
\* and the Poller make to the store can return an error; full batches are analysed
\* by a provider that finds every domain suspicious, and the operator approves and
\* blocks.
NextReview ==
    \/ PollFetch
    \/ \E q \in {r \in PageRecords : r.client = "c1" /\ r.domain # "" /\ r.ts # 1} :
          PollRecord(q)
    \/ \E q \in {r \in PageRecords : r.client = "c1" /\ r.domain # "" /\ r.ts # 1} :
          PollSeenFails(q)
    \/ PollMark
    \/ PollMarkFails
    \/ PollCheck
    \/ PollCheckFails
    \/ PollSubmit
    \/ PollAdd
    \/ PollAddFails
    \/ WorkerRecv
    \/ \E i \in 1..Len(tasks) : TaskStart(i)
    \/ \E i \in 1..Len(tasks) : TaskLookup(i, TRUE)
    \/ \E i \in 1..Len(tasks) : TaskAcquire(i)
    \/ \E i \in 1..Len(tasks) : TaskCall(i)
    \/ \E i \in 1..Len(tasks) : TaskReplyWithin(i, {"Suspicious"}, 0)
    \/ \E i \in 1..Len(tasks) : TaskSaveAnalysis(i, TRUE)
    \/ \E i \in 1..Len(tasks) : TaskSaveAnomaly(i, TRUE)
    \/ \E i \in 1..Len(tasks) : TaskCount(i)
    \/ \E action \in {"approve", "block"} : \E id \in RequestIDs : HandleAnomalyAction(action, id)
    \/ \E i \in 1..Len(requests) : ApproveAnomalyAdd(i, TRUE)
    \/ \E i \in 1..Len(requests) : BlockAnomalyRule(i, "ok")
    \/ \E i \in 1..Len(requests) : AnomalyStatusUpdate(i, TRUE)

SpecReview == InitWarm /\ [][NextReview]_vars

\* Review with maintenance of the database from outside: beside the steps of the
\* program, on the records of one client and one instant and with a store that
\* performs every call of the Poller, seconds pass and the marks of the processed
\* queries are cleaned.
NextMaintenance ==
    \/ PollFetch
    \/ \E q \in ClientRecords :
          PollRecord(q)
    \/ PollMark
    \/ PollCheck
    \/ PollSubmit
    \/ PollAdd
    \/ WorkerRecv
    \/ \E i \in 1..Len(tasks) : TaskStart(i)
    \/ \E i \in 1..Len(tasks) : TaskLookup(i, TRUE)
    \/ \E i \in 1..Len(tasks) : TaskAcquire(i)
    \/ \E i \in 1..Len(tasks) : TaskCall(i)
    \/ \E i \in 1..Len(tasks) : TaskReplyWithin(i, {"Suspicious"}, 0)
    \/ \E i \in 1..Len(tasks) : TaskSaveAnalysis(i, TRUE)
    \/ \E i \in 1..Len(tasks) : TaskSaveAnomaly(i, TRUE)
    \/ \E i \in 1..Len(tasks) : TaskCount(i)
    \/ \E action \in {"approve", "block"} : \E id \in RequestIDs : HandleAnomalyAction(action, id)
    \/ \E i \in 1..Len(requests) : ApproveAnomalyAdd(i, TRUE)
    \/ \E i \in 1..Len(requests) : BlockAnomalyRule(i, "ok")
    \/ \E i \in 1..Len(requests) : AnomalyStatusUpdate(i, TRUE)
    \/ second < MaxMarkSeconds /\ SecondTick
    \/ CleanProcessed

SpecMaintenance == InitWarm /\ [][NextMaintenance]_vars

\* the records of the pair (c1, d1)
PairRecords == {q \in PageRecords : q.client = "c1" /\ q.domain = "d1"}

\* Duplicates: the pipeline on records of one pair within one unit of the clock,
\* second by second, with a store whose baseline write can fail, so that the pair is
\* flagged and submitted more than once, and a provider that finds it suspicious.
NextDuplicates ==
    \/ PollFetch
    \/ \E q \in PairRecords : PollRecord(q)
    \/ PollMark
    \/ PollCheck
    \/ PollSubmit
    \/ PollAdd
    \/ PollAddFails
    \/ WorkerRecv
    \/ \E i \in 1..Len(tasks) : TaskStart(i)
    \/ \E i \in 1..Len(tasks) : TaskLookup(i, TRUE)
    \/ \E i \in 1..Len(tasks) : TaskAcquire(i)
    \/ \E i \in 1..Len(tasks) : TaskCall(i)
    \/ \E i \in 1..Len(tasks) : \E j \in 0..BatchSize : TaskReplyWithin(i, {"Suspicious"}, j)
    \/ \E i \in 1..Len(tasks) : TaskSaveAnalysis(i, TRUE)
    \/ \E i \in 1..Len(tasks) : TaskSaveAnomaly(i, TRUE)
    \/ \E i \in 1..Len(tasks) : TaskCount(i)
    \/ SecondTick

SpecDuplicates == InitWarm /\ [][NextDuplicates]_vars

\* The API server: requests to approve and to block, step by step and interleaved,
\* on the anomalies that the pipeline stores within one instant of the clock.
NextApi ==
    \/ PollFetch
    \/ \E q \in ClientRecords : PollRecord(q)
    \/ PollMark
    \/ PollCheck
    \/ PollSubmit
    \/ PollAdd
    \/ WorkerRecv
    \/ \E i \in 1..Len(tasks) : TaskStart(i)
    \/ \E i \in 1..Len(tasks) : TaskLookup(i, TRUE)
    \/ \E i \in 1..Len(tasks) : TaskAcquire(i)
    \/ \E i \in 1..Len(tasks) : TaskCall(i)
    \/ \E i \in 1..Len(tasks) : TaskReply(i, 0)
    \/ \E i \in 1..Len(tasks) : TaskSaveAnalysis(i, TRUE)
    \/ \E i \in 1..Len(tasks) : TaskSaveAnomaly(i, TRUE)
    \/ \E i \in 1..Len(tasks) : TaskCount(i)
    \/ \E action \in Actions : \E id \in RequestIDs : HandleAnomalyAction(action, id)
    \/ \E i \in 1..Len(requests) : \E ok \in BOOLEAN : ApproveAnomalyAdd(i, ok)
    \/ \E i \in 1..Len(requests) : \E answer \in {"ok", "duplicate", "unreachable"} :
          BlockAnomalyRule(i, answer)
    \/ \E i \in 1..Len(requests) : \E ok \in BOOLEAN : AnomalyStatusUpdate(i, ok)

SpecApi == InitWarm /\ [][NextApi]_vars

\* Upsert: the pipeline on records of one pair within one instant of the clock,
\* with a store whose baseline write can fail, while the operator approves and
\* blocks.
NextUpsert ==
    \/ PollFetch
    \/ \E q \in PairRecords : PollRecord(q)
    \/ PollMark
    \/ PollCheck
    \/ PollSubmit
    \/ PollAdd
    \/ PollAddFails
    \/ WorkerRecv
    \/ \E i \in 1..Len(tasks) : TaskStart(i)
    \/ \E i \in 1..Len(tasks) : TaskLookup(i, TRUE)
    \/ \E i \in 1..Len(tasks) : TaskAcquire(i)
    \/ \E i \in 1..Len(tasks) : TaskCall(i)
    \/ \E i \in 1..Len(tasks) : TaskReply(i, 0)
    \/ \E i \in 1..Len(tasks) : TaskSaveAnalysis(i, TRUE)
    \/ \E i \in 1..Len(tasks) : TaskSaveAnomaly(i, TRUE)
    \/ \E i \in 1..Len(tasks) : TaskCount(i)
    \/ \E action \in {"approve", "block"} : HandleAnomalyAction(action, <<"c1", "d1", 0>>)
    \/ \E i \in 1..Len(requests) : ApproveAnomalyAdd(i, TRUE)
    \/ \E i \in 1..Len(requests) : BlockAnomalyRule(i, "ok")
    \/ \E i \in 1..Len(requests) : AnomalyStatusUpdate(i, TRUE)

SpecUpsert == InitWarm /\ [][NextUpsert]_vars

\* Process: the pipeline within one instant of the clock, up to the end of the
\* processBatch calls, with a store that can fail every write of a result; the
\* provider calls are noted.
NextProcess ==
    \/ PollFetch
    \/ \E q \in InstantRecords : PollRecord(q)
    \/ PollMark
    \/ PollCheck
    \/ PollSubmit
    \/ PollAdd
    \/ WorkerRecv
    \/ \E i \in 1..Len(tasks) : TaskStart(i)
    \/ \E i \in 1..Len(tasks) : TaskLookup(i, TRUE)
    \/ \E i \in 1..Len(tasks) : TaskAcquire(i)
    \/ \E i \in 1..Len(tasks) : TaskCall(i)
    \/ \E i \in 1..Len(tasks) : TaskReplyNoted(i)
    \/ \E i \in 1..Len(tasks) : \E ok \in BOOLEAN : TaskSaveAnalysis(i, ok)
    \/ \E i \in 1..Len(tasks) : \E ok \in BOOLEAN : TaskSaveAnomaly(i, ok)
    \/ \E i \in 1..Len(tasks) : TaskCount(i)

SpecProcess == InitWarm /\ [][NextProcess]_vars

\* Shutdown: the pipeline and main after a signal; nothing runs once the process
\* has ended.
NextShutdown ==
    \/ Alive /\ PollFetch
    \/ Alive /\ \E q \in ClientRecords : PollRecord(q)
    \/ Alive /\ PollMark
    \/ Alive /\ PollCheck
    \/ Alive /\ PollSubmit
    \/ Alive /\ PollAdd
    \/ Alive /\ WorkerRecv
    \/ Alive /\ WorkerTimer
    \/ Alive /\ WorkerShutdown
    \/ Alive /\ \E i \in 1..Len(requeues) : RequeueFire(i)
    \/ Alive /\ \E i \in 1..Len(tasks) : TaskStart(i)
    \/ Alive /\ \E i \in 1..Len(tasks) : TaskLookup(i, TRUE)
    \/ Alive /\ \E i \in 1..Len(tasks) : TaskAcquire(i)
    \/ Alive /\ \E i \in 1..Len(tasks) : TaskCancelled(i)
    \/ Alive /\ \E i \in 1..Len(tasks) : TaskCall(i)
    \/ Alive /\ \E i \in 1..Len(tasks) : TaskReplyWithin(i, {"Safe"}, 0)
    \/ Alive /\ \E i \in 1..Len(tasks) : TaskSaveAnalysis(i, TRUE)
    \/ Alive /\ \E i \in 1..Len(tasks) : TaskCount(i)
    \/ Alive /\ \E i \in 1..Len(tasks) : TaskRelease(i)
    \/ Signal
    \/ MainStop
    \/ StoreClose
    \/ Alive /\ Tick

SpecShutdown == InitWarm /\ [][NextShutdown]_vars

\* The WHOIS service under the batches of the pipeline, against the clock: the
\* store is read and written, the lookups outside succeed or fail.
NextWhois ==
    \/ PollFetch
    \/ \E q \in InstantRecords : PollRecord(q)
    \/ PollMark
    \/ PollCheck
    \/ PollSubmit
    \/ PollAdd
    \/ WorkerRecv
    \/ \E i \in 1..Len(tasks) : TaskStart(i)
    \/ \E i \in 1..Len(tasks) : \E found \in BOOLEAN : TaskLookup(i, found)
    \/ \E i \in 1..Len(tasks) : TaskPace(i)
    \/ \E i \in 1..Len(tasks) : TaskWhoisSend(i)
    \/ \E i \in 1..Len(tasks) : \E outcome \in WhoisOutcomes : \E saved \in BOOLEAN :
          TaskWhoisReply(i, outcome, saved)
    \/ SecondTick

SpecWhois == Init /\ [][NextWhois]_vars

\* The pacing of the WHOIS service under the batches of the pipeline, second by
\* second: three records with three fingerprints are polled as the process starts,
\* every lookup is answered and parsed, and the cache is written.
NextPacing ==
    \/ Instant = 0 /\ PollFetch
    \/ \E q \in {r \in InstantRecords : r.domain # "" /\ (r.client = "c1" \/ r.domain = "d1")} :
          PollRecord(q)
    \/ PollMark
    \/ PollCheck
    \/ PollSubmit
    \/ PollAdd
    \/ WorkerRecv
    \/ WorkerTimer
    \/ \E i \in 1..Len(tasks) : TaskStart(i)
    \/ \E i \in 1..Len(tasks) : TaskLookup(i, TRUE)
    \/ \E i \in 1..Len(tasks) : TaskPace(i)
    \/ \E i \in 1..Len(tasks) : TaskWhoisSend(i)
    \/ \E i \in 1..Len(tasks) : TaskWhoisReply(i, "ok", TRUE)
    \/ pageLeft = 0 /\ Tick
    \/ pageLeft = 0 /\ SecondTick

SpecPacing == Init /\ [][NextPacing]_vars

\* --------------------------------------------- Provider.AnalyzeBatch alone
\* a call with a batch of up to BatchSize queries, none included, and what the API
\* answers to it; to an empty batch nothing is sent
InitBatch ==
    /\ Init
    /\ \E queries \in SeqsUpTo({q \in InstantRecords : q.domain # ""}, BatchSize) :
       \E reply \in (IF queries = <<>> THEN {[kind |-> "error", items |-> <<>>]} ELSE BatchReplies(queries)) :
          batchCall' = [pc |-> "called", queries |-> queries, reply |-> reply]
    /\ UNCHANGED <<storeVars, pollVars, dispVars, now, second, restarts, submitCall, startCall,
                   retryCall, apiVars, downVars, whoisVars, pacing, pollLog, firstAt, histVars>>

\* the call returns
BatchReturn ==
    /\ batchCall.pc = "called"
    /\ batchCall' = [batchCall EXCEPT !.pc = "returned"]
                        @@ [result |-> AnalyzeBatch(batchCall.queries, batchCall.reply,
                                          ItemTimes(Len(batchCall.queries), Instant, 0))]
    /\ UNCHANGED <<storeVars, pollVars, dispVars, now, second, restarts, submitCall, startCall,
                   retryCall, apiVars, downVars, whoisVars, pacing, pollLog, firstAt, histVars>>

NextBatch == InitBatch \/ BatchReturn

SpecBatch == Init /\ [][NextBatch]_vars

\* --------------------------------------------- Analyzer.AnalyzeAsync alone
\* a query the Poller submits, and the queue it meets
InitSubmit ==
    /\ Init
    /\ \E queue \in SeqsUpTo(Queries, QueueCap) : \E q \in Queries :
          submitCall' = [pc |-> "called", queue |-> queue, q |-> q]
    /\ UNCHANGED <<storeVars, pollVars, dispVars, now, restarts, batchCall, startCall, retryCall, apiVars, downVars, whoisVars, pacing, pollLog, second, firstAt, histVars>>

\* the call returns, with the line it has logged: the query is queued, or the
\* queue is full and the analysis of the domain is dropped
SubmitReturn ==
    /\ submitCall.pc = "called"
    /\ submitCall' = [submitCall EXCEPT !.pc = "returned"]
                         @@ [result |-> AnalyzeAsync(submitCall.queue, submitCall.q),
                             log |-> [event |-> IF Len(submitCall.queue) < QueueCap
                                                THEN "Query queued successfully"
                                                ELSE "Queue full, dropping analysis",
                                      domain |-> submitCall.q.domain]]
    /\ UNCHANGED <<storeVars, pollVars, dispVars, now, restarts, batchCall, startCall, retryCall, apiVars, downVars, whoisVars, pacing, pollLog, second, firstAt, histVars>>

NextSubmit == InitSubmit \/ SubmitReturn

SpecSubmit == Init /\ [][NextSubmit]_vars

\* ------------------------------------- the retry loop of the gemini Provider
MaxRetries == 3       \* retries after the first attempt
InitialBackoff == 1   \* seconds
MaxBackoff == 30      \* seconds

\* fault: the backoff is not doubled
NextBackoff_Same(backoff) == backoff

\* backoff *= 2
NextBackoff(backoff) == backoff * 2

\* The loop "for attempt := 0; attempt <= MaxRetries; attempt++" from attempt on,
\* at time t (seconds since the context was made) with the context ending at
\* deadline.  attempts[k] is the answer to the k-th call; race tells whether the
\* context wins when it ends at the instant a call or a sleep ends.  acc holds the
\* calls made and the sleeps begun so far.
RECURSIVE RetryLoop(_, _, _, _, _, _, _)
RetryLoop(attempts, attempt, backoff, t, deadline, race, acc) ==
    LET a == attempts[attempt + 1]
        back == t + a.dur
        called == [acc EXCEPT !.calls = @ + 1]
        expired == t >= deadline \/ back > deadline \/ (back = deadline /\ race)
        sleep == IF backoff > MaxBackoff THEN MaxBackoff ELSE backoff
        wake == back + sleep
    IN  IF expired
        THEN called @@ [kind |-> "timeout", end |-> IF t >= deadline THEN t ELSE deadline]
        ELSE IF a.outcome = "ok"
        THEN called @@ [kind |-> "response", end |-> back]
        ELSE IF a.outcome = "throttled"
        THEN IF attempt = MaxRetries
             THEN called @@ [kind |-> "ratelimited", end |-> back]
             ELSE IF wake > deadline \/ (wake = deadline /\ race)
             THEN [called EXCEPT !.delays = Append(@, sleep)]
                      @@ [kind |-> "timeout", end |-> deadline]
             ELSE RetryLoop(attempts, attempt + 1, NextBackoff(backoff), wake, deadline, race,
                            [called EXCEPT !.delays = Append(@, sleep)])
        ELSE called @@ [kind |-> "error", end |-> back]

\* the loop of Analyze and of AnalyzeBatch from its start
Retry(attempts, deadline, race) ==
    RetryLoop(attempts, 0, InitialBackoff, 0, deadline, race, [calls |-> 0, delays |-> <<>>])

InitRetry ==
    /\ Init
    /\ \E attempts \in [1..(MaxRetries + 1) ->
                             [outcome : {"ok", "throttled", "error"}, dur : 0..MaxCallTime]] :
       \E deadline \in 1..MaxDeadline : \E race \in BOOLEAN :
          retryCall' = [pc |-> "called", attempts |-> attempts, deadline |-> deadline,
                        race |-> race]
    /\ UNCHANGED <<storeVars, pollVars, dispVars, now, restarts, batchCall, submitCall, startCall, apiVars, downVars, whoisVars, pacing, pollLog, second, firstAt, histVars>>

RetryReturn ==
    /\ retryCall.pc = "called"
    /\ retryCall' = [retryCall EXCEPT !.pc = "returned"]
                        @@ Retry(retryCall.attempts, retryCall.deadline, retryCall.race)
    /\ UNCHANGED <<storeVars, pollVars, dispVars, now, restarts, batchCall, submitCall, startCall, apiVars, downVars, whoisVars, pacing, pollLog, second, firstAt, histVars>>

NextRetry == InitRetry \/ RetryReturn

SpecRetry == Init /\ [][NextRetry]_vars

\* ------------------------------------------------- Poller.Start alone
\* AdGuardClient.TestConnection: nil only for status 200
TestConnection(answer) ==
    IF answer = "unreachable" THEN "failed to connect to AdGuard Home"
    ELSE IF answer # "200" THEN "authentication failed with status code " \o answer
    ELSE ""

\* Poller.Start up to the polling loop: one connection test, and its error is
\* returned; main then logs "Poller error" and the process ends
PollerStart(answers) ==
    LET err == TestConnection(answers[1])
    IN  [probes |-> 1,
         err    |-> err,
         result |-> IF err # "" THEN "failed" ELSE "polling"]

InitStart ==
    /\ Init
    /\ \E answers \in SeqsUpTo({"200", "401", "500", "unreachable"}, MaxProbes) :
          /\ answers # <<>>
          /\ startCall' = [pc |-> "called", answers |-> answers]
    /\ UNCHANGED <<storeVars, pollVars, dispVars, now, restarts, batchCall, submitCall, retryCall, apiVars, downVars, whoisVars, pacing, pollLog, second, firstAt, histVars>>

StartReturn ==
    /\ startCall.pc = "called"
    /\ startCall' = [startCall EXCEPT !.pc = "returned"] @@ PollerStart(startCall.answers)
    /\ UNCHANGED <<storeVars, pollVars, dispVars, now, restarts, batchCall, submitCall, retryCall, apiVars, downVars, whoisVars, pacing, pollLog, second, firstAt, histVars>>

NextStartup == InitStart \/ StartReturn

SpecStartup == Init /\ [][NextStartup]_vars

\* ================================================================ claims
\* C1: within one process lifetime a (client, domain) pair is submitted to
\* AnalyzeAsync at most once, however many polls, overlapping pages and timestamps
\* show it; and a pair whose domain was in the persisted baseline when the process
\* started is not submitted at all.
C1_SubmittedOncePerLifetime ==
    \A p \in Pairs :
        /\ submitted[p] <= 1
        /\ p[2] \in baseAtStart[p[1]] => submitted[p] = 0

\* C2: ProcessQuery returns first-seen at most once for a fingerprint, in whatever
\* pages the record comes again and wherever the process is restarted.
C2_FirstSeenAtMostOnce == \A k \in QueryIDs : flagged[k] <= 1

\* a fingerprint that ProcessQuery was called on three times, in two polls and
\* before and after a restart, and that was flagged once
C2_Witness ==
    \E k \in QueryIDs :
        /\ calls[k] = 3
        /\ flagged[k] = 1
        /\ processed[k] # ZeroTime
        /\ polls = 2
        /\ pollsAtStart = 1
        /\ restarts = 1

\* C3: no operation removes a domain from a client's baseline.
C3_BaselineStep == \A c \in Clients : Range(baselines[c]) \subseteq Range(baselines'[c])

C3_BaselineNeverShrinks == [][C3_BaselineStep]_vars

\* c1's baseline holds two domains after auto-extension, a dispatch, an approval,
\* a blocking and a cleanup that removed one mark and left a later one
C3_Witness ==
    /\ Len(baselines["c1"]) = 2
    /\ Len(analyses) = 2
    /\ \E id \in DOMAIN anomalies : anomalies[id].status = "approved"
    /\ \E id \in DOMAIN anomalies : anomalies[id].status = "blocked"
    /\ pollCur.pc = "loop"
    /\ \E k \in QueryIDs : calls[k] > 0 /\ processed[k] = ZeroTime
    /\ \E k \in QueryIDs : processed[k] = MaxMarkSeconds

\* the fingerprint k is the one of the record ProcessQuery has in hand at place pc
InHand(k, pc) == pollCur.pc = pc /\ pollCur.q # NoQuery /\ QueryID(pollCur.q) = k

\* C4: a ProcessQuery call reports first-seen exactly when it finds the fingerprint
\* not marked and then the domain not in the client's baseline: a call that finds
\* the mark ends without a report, a call that does not goes on to mark the
\* fingerprint, and at the baseline check the record is reported when, and only
\* when, the domain is not in the baseline at that moment.
C4_Step ==
    \A k \in QueryIDs :
        /\ calls'[k] # calls[k] =>
              /\ flagged'[k] = flagged[k]
              /\ IF processed[k] # ZeroTime THEN pollCur'.pc = "loop"
                 ELSE InHand(k, "mark")'
        /\ flagged'[k] # flagged[k] => InHand(k, "check")
        /\ (InHand(k, "check") /\ pollCur' # pollCur) =>
              IF k[2] \notin Range(baselines[k[1]])
              THEN flagged'[k] = flagged[k] + 1 /\ pollCur'.pc = "send"
              ELSE flagged'[k] = flagged[k] /\ pollCur'.pc = "loop"

C4_FirstSeenExactlyWhenNew == [][C4_Step]_vars

\* C5: when a batch of n queries is throttled, the throttled counter grows by one
\* and each of the n queries is put back into the inbound queue after the fixed
\* 30 s delay (so within 60 s); none is lost.
C5_Step ==
    /\ (supportsBatch /\ stats'.rateLimited # stats.rateLimited) =>
          /\ stats'.rateLimited = stats.rateLimited + 1
          /\ \E i \in 1..Len(tasks) :
                /\ tasks[i].pc = "api" /\ tasks'[i].pc = "sleep"
                /\ requeues' = requeues \o [k \in 1..Len(tasks[i].batch) |->
                                   [q |-> tasks[i].batch[k], due |-> now + RequeueDelay]]
    /\ Len(requeues') < Len(requeues) =>
          \E i \in 1..Len(requeues) :
              /\ requeues' = RemoveAt(requeues, i)
              /\ requeues[i].due <= now
              /\ queryQueue' = Append(queryQueue, requeues[i].q)

C5_ThrottledBatchRequeued == [][C5_Step]_vars

\* C6: the token is given back no sooner than requestDelay after the provider
\* call of its batch returned, a provider call is made only under the token, and
\* so a batch gets the token, and starts its call, no sooner than requestDelay
\* after the call of the batch before it returned.
C6_Step ==
    /\ (rateLimiter = 1 /\ rateLimiter' = 0) => (lastEnd # -1 /\ now >= lastEnd + RequestDelay)
    /\ (rateLimiter = 0 /\ rateLimiter' = 1) => (lastEnd = -1 \/ now >= lastEnd + RequestDelay)
    /\ stats'.total # stats.total => (rateLimiter = 1 /\ rateLimiter' = 1)
    /\ lastEnd' # lastEnd => (rateLimiter = 1 /\ rateLimiter' = 1)

C6_InterBatchDelay == [][C6_Step]_vars

\* a second batch holds the token and is in its provider call after the call of a
\* first batch returned and its delay passed
C6_Witness ==
    /\ rateLimiter = 1
    /\ \E i \in 1..Len(tasks) : tasks[i].pc = "api"
    /\ lastEnd # -1
    /\ now >= lastEnd + RequestDelay
    /\ stats.batches >= 2

\* C7: a call of AnalyzeBatch that succeeds returns one Analysis per query, the
\* i-th for the domain of the i-th query; a response of another length, or with
\* another domain at some position, makes the call fail and return no Analysis.
C7_BatchAligned ==
    batchCall.pc = "returned" =>
        LET B == batchCall.queries
            items == batchCall.reply.items
            r == batchCall.result
        IN  /\ r.err = "" =>
                  /\ Len(r.analyses) = Len(B)
                  /\ \A i \in 1..Len(B) : r.analyses[i].domain = B[i].domain
            /\ (/\ batchCall.reply.kind = "text"
                /\ \/ Len(items) # Len(B)
                   \/ \E i \in 1..Len(B) : items[i].domain # B[i].domain) =>
                  (r.err # "" /\ r.analyses = <<>>)

\* a call for two queries on different domains has succeeded
C7_Witness ==
    /\ batchCall.pc = "returned"
    /\ Len(batchCall.queries) = 2
    /\ batchCall.queries[1].domain # batchCall.queries[2].domain
    /\ batchCall.result.err = ""
    /\ Len(batchCall.result.analyses) = 2

\* C8: every stored Analysis has a risk score in 1..10, a classification and a
\* suggested action of the three allowed ones, and an explanation.
C8_AnalysesValid ==
    \A i \in 1..Len(analyses) :
        /\ analyses[i].risk \in 1..10
        /\ analyses[i].classification \in {"Safe", "Suspicious", "Malicious"}
        /\ analyses[i].action \in {"Allow", "Investigate", "Block"}
        /\ analyses[i].explanation # ""

\* the one-by-one path has stored analyses with the lowest and the highest score
C8_Witness ==
    /\ ~supportsBatch
    /\ \E i \in 1..Len(analyses) : analyses[i].risk = 1
    /\ \E i \in 1..Len(analyses) : analyses[i].risk = 10

\* C9: every stored Anomaly is classified Suspicious or Malicious and has its
\* time of detection set.
C9_AnomaliesValid ==
    \A id \in DOMAIN anomalies :
        /\ anomalies[id].classification \in {"Suspicious", "Malicious"}
        /\ anomalies[id].detectedAt # ZeroTime

\* a batch with a Safe and a Suspicious verdict left one anomaly, which was blocked
C9_Witness ==
    /\ \E i \in 1..Len(analyses) : analyses[i].classification = "Safe"
    /\ Cardinality(DOMAIN anomalies) = 1
    /\ \E id \in DOMAIN anomalies :
          anomalies[id].classification = "Suspicious" /\ anomalies[id].status = "blocked"

\* the processBatch call at place i takes the step it has at place pc
Steps(i, pc) == tasks[i].pc = pc /\ tasks'[i] # tasks[i]

\* C10: for each verdict of a classified batch whose writes the store performs,
\* exactly one Analysis is appended, and a pending Anomaly is stored for it when,
\* and only when, the verdict is Suspicious or Malicious.  A turn of the result
\* loop appends the Analysis of its verdict in its SaveAnalysis and nothing else,
\* goes on to SaveAnomaly exactly for a Suspicious or Malicious verdict, and stores
\* there the Anomaly of the verdict, pending, and nothing else; a turn is counted
\* once, and nothing else writes an Analysis.
C10_Step ==
    /\ \A i \in 1..Len(tasks) :
          LET t == tasks[i]
              a == Current(t)
              id == <<a.client, a.domain, a.analyzedAt>>
          IN  /\ Steps(i, "save") =>
                    /\ analyses' \in {analyses, Append(analyses, a)}
                    /\ anomalies' = anomalies
                    /\ analyses' # analyses =>
                          /\ tasks'[i].pc = "anom" <=>
                                a.classification \in {"Suspicious", "Malicious"}
                          /\ tasks'[i].pc # "anom" => tasks'[i].okc = t.okc + 1
              /\ Steps(i, "anom") =>
                    /\ analyses' = analyses
                    /\ a.classification \in {"Suspicious", "Malicious"}
                    /\ tasks'[i].okc = t.okc + 1
                    /\ anomalies' # anomalies =>
                          /\ DOMAIN anomalies' = DOMAIN anomalies \cup {id}
                          /\ anomalies'[id].status = "pending"
                          /\ anomalies'[id].classification = a.classification
                          /\ \A other \in DOMAIN anomalies \ {id} :
                                anomalies'[other] = anomalies[other]
    /\ analyses' # analyses => \E i \in 1..Len(tasks) : Steps(i, "save")
    /\ anomalies' # anomalies => \E i \in 1..Len(tasks) : Steps(i, "anom")

C10_OneAnalysisPerVerdict == [][C10_Step]_vars

\* a batch with a Safe and a Malicious verdict has stored two analyses and one
\* pending anomaly
C10_Witness ==
    /\ supportsBatch
    /\ stats.ok = 2
    /\ Len(analyses) = 2
    /\ analyses[1].classification = "Safe"
    /\ analyses[2].classification = "Malicious"
    /\ analyses[1].analyzedAt = analyses[2].analyzedAt
    /\ Cardinality(DOMAIN anomalies) = 1
    /\ \E id \in DOMAIN anomalies :
          /\ anomalies[id].status = "pending"
          /\ anomalies[id].domain = analyses[2].domain

\* the stored anomalies of the pair (c, d)
AnomaliesOf(c, d) == {id \in DOMAIN anomalies : anomalies[id].client = c /\ anomalies[id].domain = d}

\* C11: however often a (client, domain) pair is submitted, in one batch or in
\* several, the store holds at most one Anomaly for the pair.
C11_OneAnomalyPerPair == \A p \in Pairs : Cardinality(AnomaliesOf(p[1], p[2])) <= 1

\* a step changes the status of a stored anomaly only from pending, to approved or to blocked
C12_Step ==
    \A id \in DOMAIN anomalies :
        anomalies'[id].status # anomalies[id].status =>
            /\ anomalies[id].status = "pending"
            /\ anomalies'[id].status \in {"approved", "blocked"}

\* C12: the status of an anomaly changes only from pending to approved or from
\* pending to blocked; once it is approved or blocked, no approve or block request
\* moves it to another status.
C12_StatusOnlyFromPending == [][C12_Step]_vars

\* the store as the approve and block requests see it
Reviewed == <<anomalies, baselines>>

\* what a step of an approve request does when the anomaly is approved already and
\* the store performs the write
C13_Step ==
    /\ \A id \in DOMAIN anomalies :
           anomalies[id].status = "approved" /\ HandleAnomalyAction("approve", id) =>
               /\ requests'[Len(requests')].pc = "act"
               /\ Reviewed' = Reviewed
    /\ \A i \in 1..Len(requests) :
           (/\ requests[i].action = "approve"
            /\ requests[i].pc # "done"
            /\ anomalies[requests[i].id].status = "approved") =>
               /\ ApproveAnomalyAdd(i, TRUE) => Reviewed' = Reviewed
               /\ AnomalyStatusUpdate(i, TRUE) =>
                      Reviewed' = Reviewed /\ requests'[i].code = 200

\* C13: approve on an anomaly that is already approved reports success and leaves
\* the anomaly record and the baseline of the client as they are.
C13_ApproveTwice == [][C13_Step]_vars

\* two approve requests for one anomaly have both answered 200, the second after the first
C13_Witness ==
    /\ Len(requests) = 2
    /\ requests[1].id = requests[2].id
    /\ \A i \in 1..2 : requests[i].action = "approve" /\ requests[i].code = 200
    /\ lastWriter[requests[2].id] = 2
    /\ anomalies[requests[2].id].status = "approved"

\* what a step of a block request does when the anomaly is blocked already and the
\* upstream installs the rule again or rejects it as a duplicate
C14_Step ==
    \A i \in 1..Len(requests) :
        (/\ requests[i].action = "block"
         /\ requests[i].pc # "done"
         /\ anomalies[requests[i].id].status = "blocked") =>
            /\ \A answer \in {"ok", "duplicate"} :
                   BlockAnomalyRule(i, answer) =>
                       /\ requests'[i].code # 500
                       /\ anomalies'[requests[i].id].status = "blocked"
            /\ AnomalyStatusUpdate(i, TRUE) =>
                   /\ requests'[i].code = 200
                   /\ anomalies'[requests[i].id].status = "blocked"

\* C14: block on an anomaly that is already blocked reports success and leaves the
\* status blocked, also when the upstream rejects the duplicate rule: BlockDomain
\* reports the rejection of a duplicate as success.
C14_BlockTwice == [][C14_Step]_vars

\* what the steps of a block request do: a rule that is not installed ends the
\* request with a failure and the anomalies as they were; an installed rule lets
\* the request go on, and its status update sets blocked and answers 200
C15_Step ==
    \A i \in 1..Len(requests) :
        requests[i].action = "block" =>
            /\ \A answer \in {"duplicate", "unreachable"} :
                   BlockAnomalyRule(i, answer) =>
                       /\ requests'[i].pc = "done"
                       /\ requests'[i].code = 500
                       /\ anomalies' = anomalies
            /\ BlockAnomalyRule(i, "ok") =>
                   /\ requests'[i].pc = "update"
                   /\ anomalies' = anomalies
            /\ AnomalyStatusUpdate(i, TRUE) =>
                   /\ requests'[i].code = 200
                   /\ anomalies'[requests[i].id].status = "blocked"

\* C15: when BlockDomain fails during a block request, the request reports failure
\* and the status of the anomaly is unchanged (it stays pending); a later block
\* whose rule is installed sets the status to blocked.
C15_FailedBlockRetried == [][C15_Step]_vars

\* a block of a pending anomaly has failed with 500 and its retry has answered 200
C15_Witness ==
    /\ Len(requests) = 2
    /\ requests[1].id = requests[2].id
    /\ \A i \in 1..2 : requests[i].action = "block" /\ requests[i].pc = "done"
    /\ requests[1].code = 500
    /\ requests[1].err = "failed to block domain in AdGuard Home"
    /\ requests[2].code = 200
    /\ blockRules = {anomalies[requests[2].id].domain}
    /\ anomalies[requests[2].id].status = "blocked"

\* the domain of the stored anomaly id is in the baseline of its client
InBaseline(id) == HasDomainInBaseline(baselines, anomalies[id].client, anomalies[id].domain)

\* C16: in every reachable state an approved anomaly has its domain in the baseline
\* of its client; approve adds to the baseline before it updates the status, so an
\* approve that is about to update the status, or whose status update has failed,
\* has extended the baseline already.
C16_ApprovedInBaseline ==
    /\ \A id \in DOMAIN anomalies : anomalies[id].status = "approved" => InBaseline(id)
    /\ \A i \in 1..Len(requests) :
           (/\ requests[i].action = "approve"
            /\ \/ requests[i].pc = "update"
               \/ requests[i].err = "failed to update anomaly status") =>
               InBaseline(requests[i].id)

\* the status update of an approve has failed, and the retry has approved the anomaly
C16_Witness ==
    /\ Len(requests) = 2
    /\ requests[1].id = requests[2].id
    /\ \A i \in 1..2 : requests[i].action = "approve"
    /\ requests[1].err = "failed to update anomaly status"
    /\ requests[2].code = 200
    /\ anomalies[requests[2].id].status = "approved"
    /\ InBaseline(requests[2].id)

\* C17: approve and block requests for one anomaly, their steps interleaved in any
\* way, leave a well-defined status: once a status update has committed, the status
\* is approved or blocked and is the one written by the request whose update
\* committed last.
C17_LastWriterWins ==
    \A id \in DOMAIN lastWriter :
        /\ anomalies[id].status \in {"approved", "blocked"}
        /\ anomalies[id].status = StatusOf(requests[lastWriter[id]].action)

\* an approve and a block of one anomaly have overlapped and both answered 200: the
\* request that arrived first committed its status last
C17_Witness ==
    /\ Len(requests) = 2
    /\ requests[1].id = requests[2].id
    /\ requests[1].action # requests[2].action
    /\ \A i \in 1..2 : requests[i].code = 200
    /\ lastWriter[requests[1].id] = 1

\* C18: AnalyzeAsync never blocks its caller: a call returns from every queue; when
\* the queue holds fewer items than its capacity the query is appended to it, and
\* when it is full the query is dropped, the queue is left as it was and the drop
\* is logged.
C18_SubmitNeverBlocks ==
    /\ submitCall.pc = "called" => ENABLED SubmitReturn
    /\ submitCall.pc = "returned" =>
           IF Len(submitCall.queue) < QueueCap
           THEN /\ submitCall.result = Append(submitCall.queue, submitCall.q)
                /\ submitCall.log.event = "Query queued successfully"
           ELSE /\ submitCall.result = submitCall.queue
                /\ submitCall.log = [event |-> "Queue full, dropping analysis",
                                     domain |-> submitCall.q.domain]

\* a query was submitted to a full queue and dropped
C18_Witness ==
    /\ submitCall.pc = "returned"
    /\ Len(submitCall.queue) = QueueCap
    /\ submitCall.q \notin Range(submitCall.queue)
    /\ submitCall.result = submitCall.queue
    /\ submitCall.log.event = "Queue full, dropping analysis"

\* the places of processBatch between the gathering of the WHOIS data and its
\* return: the batch waits for the token, or calls the provider and stores the
\* results under it
DispatchPcs == {"wait", "call", "api", "save", "anom", "count"}

\* the processBatch calls that are inside the dispatch procedure
InDispatch == {i \in 1..Len(tasks) : tasks[i].pc \in DispatchPcs}

\* C19: at any time at most one batch is inside the dispatch procedure; a batch
\* formed while another is dispatched does not start before the earlier one has
\* finished.
C19_OneBatchInDispatch == Cardinality(InDispatch) <= 1

\* the provider call of the processBatch call i has started
CallStarted(i) ==
    \/ tasks[i].pc \in {"api", "save", "anom", "count", "sleep"}
    \/ tasks[i].pc = "call" /\ tasks[i].k > 1

\* C20: batches are handed to the provider in the order in which they were formed:
\* when the provider call of a batch has started, so has the call of every batch
\* that the worker took from the accumulator before it.
C20_BatchesInOrder ==
    \A i \in 1..Len(tasks) : \A j \in 1..Len(tasks) :
        i < j /\ CallStarted(j) => CallStarted(i)

\* the worker ends its flush only after the provider was called for the final batch
C21_Step ==
    worker = "flush" /\ worker' = "done" =>
        \E i \in 1..Len(tasks) : tasks[i].final /\ tasks[i].pc = "sleep"

\* C21: on Stop the items of the accumulator are dispatched as one final batch
\* through the dispatch procedure (enrichment, classification, persistence) before
\* the worker terminates.
C21_FinalBatchDispatched == [][C21_Step]_vars

\* the store holds an Analysis of the query
Analysed(q) ==
    \E i \in 1..Len(analyses) : analyses[i].client = q.client /\ analyses[i].domain = q.domain

\* C22: no query is lost in a graceful termination: when Stop returns (the worker
\* has ended), every query the Analyzer held when Stop was called, in the queue, in
\* the accumulator or in a batch being dispatched, has been analysed or is part of
\* the flushed final batch.
C22_NoQueryLost ==
    (ctxDone /\ worker = "done") =>
        \A q \in acceptedAtStop : Analysed(q) \/ q \in Range(finalBatch)

\* C23: after a shutdown signal the components stop in order, the Poller after its
\* page, then the Analyzer after its final batch, then the store: the store is not
\* closed while the Poller still processes a page or a batch is still running.
C23_OrderedShutdown == mainPc = "closed" => pageLeft = 0 /\ tasks = <<>>

\* C24: when Lookup is called twice for a domain within 24 h, the second call makes
\* no WHOIS lookup outside and is served from the cache: no two calls for one
\* domain that are 24 h apart at most both miss the cache.
C24_SecondLookupCached ==
    \A i \in 1..Len(whoisLog) : \A j \in 1..Len(whoisLog) :
        (i < j /\ whoisLog[i].domain = whoisLog[j].domain) =>
            whoisLog[j].at - whoisLog[i].at > WhoisCacheTTL

\* C25: Poller.Start tests the upstream once; an unauthorized answer fails the
\* startup, an unreachable upstream does not fail it (the Poller goes on and tries
\* again until the upstream answers).
C25_UnreachableRetried ==
    startCall.pc = "returned" =>
        /\ startCall.probes = 1
        /\ startCall.answers[1] = "401" => startCall.result = "failed"
        /\ startCall.answers[1] = "unreachable" => startCall.result # "failed"

\* C26: after every step the accumulator holds fewer than batchSize queries: the
\* append that fills it makes the worker take all of it, start processBatch on it
\* and reset the batch timer; so every batch handed to processBatch has between 1
\* and batchSize queries, and an empty accumulator is never handed over.
C26_Sizes ==
    /\ Len(currentBatch) < BatchSize
    /\ \A i \in 1..Len(tasks) : Len(tasks[i].batch) \in 1..BatchSize

C26_Step ==
    /\ C26_Sizes'
    /\ (queryQueue' # queryQueue /\ queryQueue # <<>> /\ queryQueue' = Tail(queryQueue)
            /\ Len(currentBatch) + 1 >= BatchSize) =>
          /\ currentBatch' = <<>>
          /\ Len(tasks') = Len(tasks) + 1
          /\ tasks'[Len(tasks')].batch = Append(currentBatch, Head(queryQueue))
          /\ tasks'[Len(tasks')].pc = "start"
          /\ timerDue' = now + BatchTimeout

C26_FullBatchDispatched == [][C26_Step]_vars

\* after the clock has moved, a full batch was taken from the accumulator, its
\* processBatch call started and the timer set again
C26_Witness ==
    /\ now > 0
    /\ currentBatch = <<>>
    /\ timerDue = now + BatchTimeout
    /\ \E i \in 1..Len(tasks) : Len(tasks[i].batch) = BatchSize /\ tasks[i].pc = "start"

\* C27: a query in the accumulator is handed to processBatch at the latest
\* batchTimeout after the first query of that accumulator arrived, also when the
\* batch never fills; a timer tick on an empty accumulator starts nothing and only
\* sets the timer again.
C27_Step ==
    /\ currentBatch' # <<>> => now' <= firstAt' + BatchTimeout
    /\ (timerDue' # timerDue /\ queryQueue' = queryQueue) =>
          /\ timerDue' = now + BatchTimeout
          /\ IF currentBatch = <<>>
             THEN tasks' = tasks /\ currentBatch' = <<>>
             ELSE /\ currentBatch' = <<>>
                  /\ Len(tasks') = Len(tasks) + 1
                  /\ tasks'[Len(tasks')].batch = currentBatch

C27_TimerFlush == [][C27_Step]_vars

\* the timer has fired on an accumulator that was not full: its queries were
\* handed to processBatch and the timer set again
C27_Witness ==
    /\ now = BatchTimeout
    /\ timerDue = now + BatchTimeout
    /\ currentBatch = <<>>
    /\ \E i \in 1..Len(tasks) :
          /\ Len(tasks[i].batch) < BatchSize
          /\ tasks[i].pc = "start"

\* C28: under throttling the provider waits 1 s, 2 s, 4 s between its calls
\* (doubling, at most 30 s) and makes at most 4 calls; the first answer that is not
\* throttling ends the loop, and a success gives the response; ErrRateLimited comes
\* only after the 4th throttled call; ErrTimeout comes when the deadline passes
\* during a call or a wait.
Throttled(attempts, k) == \A i \in 1..k : attempts[i].outcome = "throttled"

\* when the loop would end if the context never ended
Unbounded(attempts) == Retry(attempts, 1000, FALSE)

C28_RetryBackoff ==
    retryCall.pc = "returned" =>
        LET r == retryCall
            free == Unbounded(r.attempts)
        IN  /\ r.calls \in 1..(MaxRetries + 1)
            /\ Len(r.delays) \in {r.calls - 1, r.calls}
            /\ \A i \in 1..Len(r.delays) :
                  r.delays[i] = IF 2^(i-1) > 30 THEN 30 ELSE 2^(i-1)
            /\ Throttled(r.attempts, r.calls - 1)
            /\ r.kind = "response" => r.attempts[r.calls].outcome = "ok"
            /\ r.kind = "ratelimited" <=>
                  (r.calls = MaxRetries + 1 /\ Throttled(r.attempts, MaxRetries + 1)
                     /\ r.kind # "timeout")
            /\ free.end > r.deadline => r.kind = "timeout"
            /\ free.end < r.deadline => r.kind = free.kind /\ r.calls = free.calls
            /\ r.kind = "timeout" => free.end >= r.deadline /\ r.end >= r.deadline

C28_Witness ==
    /\ retryCall.pc = "returned"
    /\ retryCall.kind = "ratelimited"
    /\ retryCall.delays = <<1, 2, 4>>
    /\ retryCall.calls = 4

\* C29: when the provider call for a batch of n queries ends with a timeout or with
\* any error that is not throttling, the failed counter grows by n, the throttled
\* counter stays, and none of the n queries is scheduled for the queue again.
C29_Step ==
    (/\ batchCall' # batchCall
     /\ batchCall'.reply.kind \in {"timeout", "error", "noresponse", "badjson"}) =>
        /\ stats'.failed = stats.failed + Len(batchCall'.queries)
        /\ stats'.rateLimited = stats.rateLimited
        /\ stats'.ok = stats.ok
        /\ requeues' = requeues
        /\ queryQueue' = queryQueue

C29_FailedNotRequeued == [][C29_Step]_vars

\* the provider call for a batch of two queries has timed out: both are counted
\* as failed, and no goroutine waits to queue them again
C29_Witness ==
    /\ batchCall.pc = "answered"
    /\ batchCall.reply.kind = "timeout"
    /\ Len(batchCall.queries) = 2
    /\ stats.total = 2
    /\ stats.failed = 2
    /\ stats.rateLimited = 0
    /\ requeues = <<>>

\* the response has another number of elements than there are queries, a domain at
\* the wrong place, or an element that fails validation
Rejected(queries, items) ==
    \/ Len(items) # Len(queries)
    \/ \E i \in 1..Len(items) :
          \/ items[i].domain # queries[i].domain
          \/ items[i].classification \notin {"Safe", "Suspicious", "Malicious"}
          \/ items[i].explanation = ""
          \/ items[i].risk \notin 1..10
          \/ items[i].action \notin {"Allow", "Investigate", "Block"}

\* the provider call that has just returned was for a batch and its response is rejected
C30_Case ==
    /\ supportsBatch
    /\ batchCall' # batchCall
    /\ batchCall'.reply.kind = "text"
    /\ Rejected(batchCall'.queries, batchCall'.reply.items)

\* C30: a batch response that is rejected (another number of elements than queries,
\* a domain at the wrong place, an element that fails validation) stores nothing:
\* analyses and anomalies are as before the call, processBatch returns without a
\* result to store, and what a processBatch call stores is always the whole of an
\* accepted response.
C30_Step ==
    /\ C30_Case =>
          /\ analyses' = analyses
          /\ anomalies' = anomalies
          /\ \E i \in 1..Len(tasks) :
                /\ tasks[i].pc = "api"
                /\ tasks'[i].pc = "sleep"
                /\ tasks'[i].res = <<>>
                /\ stats'.failed = stats.failed + Len(tasks[i].batch)
    /\ \A i \in 1..Len(tasks') :
          (supportsBatch /\ tasks'[i].res # <<>>) =>
              /\ Len(tasks'[i].res) = Len(tasks'[i].batch)
              /\ \A k \in 1..Len(tasks'[i].res) :
                    /\ tasks'[i].res[k].domain = tasks'[i].batch[k].domain
                    /\ ValidateLLMResponse(tasks'[i].res[k]) = ""

C30_RejectedBatchAtomic == [][C30_Step]_vars

\* the first element of a response for two queries was acceptable and suspicious,
\* the second was not: nothing is stored and the batch is counted as failed
C30_Witness ==
    /\ supportsBatch
    /\ batchCall.pc = "answered"
    /\ batchCall.reply.kind = "text"
    /\ Len(batchCall.queries) = 2
    /\ Len(batchCall.reply.items) = 2
    /\ batchCall.reply.items[1] \in GoodItems(batchCall.queries[1].domain)
    /\ batchCall.reply.items[1].classification = "Suspicious"
    /\ Rejected(batchCall.queries, batchCall.reply.items)
    /\ analyses = <<>>
    /\ DOMAIN anomalies = {}
    /\ stats.failed = 2
    /\ \E i \in 1..Len(tasks) : tasks[i].pc = "sleep" /\ tasks[i].batch = batchCall.queries

\* C31: when the Analyzer saves an Anomaly under an id the store already holds, the
\* status of the stored anomaly is kept; an approved or blocked anomaly is never
\* set back to pending by a save of the Analyzer.
C31_Step ==
    (anomalies' # anomalies /\ requests' = requests) =>
        \A id \in DOMAIN anomalies : anomalies'[id].status = anomalies[id].status

C31_UpsertKeepsStatus == [][C31_Step]_vars

\* C32: the Poller goes on polling whatever errors come: after a failed fetch Start
\* stays in its loop and the next tick polls again, and an error of ProcessQuery
\* on one record ends the turn of that record and leaves the other records of the
\* page to be processed.
C32_Step ==
    /\ (Len(pollLog') > Len(pollLog) /\ pollLog'[Len(pollLog')].kind = "fetch") =>
          /\ mainPc' = "run"
          /\ pageLeft' = 0
          /\ polls' = polls + 1
    /\ (Len(pollLog') > Len(pollLog) /\ pollLog'[Len(pollLog')].kind = "record") =>
          /\ mainPc' = "run"
          /\ pageLeft' = pageLeft - 1
          /\ pollCur'.pc = "loop"
          /\ polls' = polls
    /\ (mainPc = "run" /\ pageLeft = 0 /\ polls < MaxPolls) => ENABLED PollFetch
    /\ (mainPc = "run" /\ pageLeft > 0 /\ pollCur.pc = "loop") =>
          \A q \in PageRecords : ENABLED PollRecord(q)

C32_PollerGoesOn == [][C32_Step]_vars

\* the first poll failed at the fetch; in the second poll the mark of a record
\* failed with another record left in the page, and that record was then flagged
C32_Witness ==
    /\ Len(pollLog) = 2
    /\ pollLog[1] = [kind |-> "fetch", poll |-> 1, left |-> 0,
                     err |-> "failed to fetch query log"]
    /\ pollLog[2] = [kind |-> "record", poll |-> 2, left |-> 1,
                     err |-> "failed to mark query as processed"]
    /\ polls = 2
    /\ pageLeft = 0
    /\ \E k \in QueryIDs : flagged[k] = 1 /\ processed[k] # ZeroTime

\* C39: a record whose fingerprint is marked processed and whose domain is not in
\* the baseline of its client has been reported first-seen, once ProcessQuery has
\* come to its baseline check; a store error between the mark and the baseline
\* check does not make ProcessQuery pass over the record for good.
C39_MarkedMeansReported ==
    \A q \in PageRecords :
        (/\ q.domain # ""
         /\ HasSeenQuery(processed, QueryID(q))
         /\ ~HasDomainInBaseline(baselines, q.client, q.domain)
         /\ ~InHand(QueryID(q), "check")) =>
            flagged[QueryID(q)] >= 1

\* C33: any two calls of whois.Whois by one WHOISService are at least
\* RateLimitDelay (2 s) apart, also when several batches are enriched at the same
\* time.
C33_LookupsPaced ==
    \A i \in 1..Len(pacing.sent) : \A j \in 1..Len(pacing.sent) :
        i < j => pacing.sent[j] - pacing.sent[i] >= RateLimitDelay

\* C34: while the Analyzer is not stopped the worker puts every query it takes from
\* the queue into exactly one batch: what it takes is appended to the accumulator,
\* a batch it starts is the whole accumulator, in order, and the accumulator is
\* empty afterwards; and the batch of a started processBatch is a copy that later
\* appends to the accumulator do not change.
C34_Step ==
    /\ (currentBatch' # currentBatch \/ Len(tasks') > Len(tasks)) =>
          LET taken == IF queryQueue # <<>> /\ queryQueue' = Tail(queryQueue)
                       THEN <<Head(queryQueue)>> ELSE <<>>
              started == IF Len(tasks') > Len(tasks) THEN tasks'[Len(tasks')].batch ELSE <<>>
          IN  /\ Len(tasks') <= Len(tasks) + 1
              /\ started \o currentBatch' = currentBatch \o taken
              /\ started # <<>> => currentBatch' = <<>>
    /\ Len(tasks') >= Len(tasks) =>
          \A i \in 1..Len(tasks) : tasks'[i].batch = tasks[i].batch

C34_OneBatchPerQuery == [][C34_Step]_vars

\* a full batch was started, and a query that arrived later is in the accumulator
C34_Witness ==
    /\ Len(currentBatch) = 1
    /\ \E i \in 1..Len(tasks) :
          /\ Len(tasks[i].batch) = BatchSize
          /\ currentBatch[1] \notin Range(tasks[i].batch)

\* the places of processBatch from the first call of the provider to the tally of
\* the last result
CallPcs == {"call", "api", "save", "anom", "count"}

\* the processBatch calls that hold the token: in their provider call, or in the
\* sleep of the deferred function after it
Holders == {i \in 1..Len(tasks) : tasks[i].pc \in CallPcs \cup {"sleep"}}

\* C35: at most one batch is in its provider call (AnalyzeBatch, or the loop of
\* Analyze calls) at any time, however many processBatch goroutines there are; the
\* batch in its call holds the token of the rate limiter, and holds it until the
\* call has returned.
C35_OneProviderCall ==
    /\ Cardinality({i \in 1..Len(tasks) : tasks[i].pc \in CallPcs}) <= 1
    /\ Cardinality(Holders) <= 1
    /\ Holders # {} => rateLimiter = 1

\* one batch is in its provider call while another waits for the token
C35_Witness ==
    /\ rateLimiter = 1
    /\ \E i \in 1..Len(tasks) : \E j \in 1..Len(tasks) :
          tasks[i].pc = "api" /\ tasks[j].pc = "wait"

\* the processBatch call at place i waits for the token
Waiting(i) == i <= Len(tasks) /\ tasks[i].pc = "wait"

\* C36: a token that was taken is given back, whichever way processBatch ends
\* (success, throttling, provider error, rejected response); so a batch that waits
\* for the token while the Analyzer is not stopped gets it, and no processBatch
\* call waits for ever.
C36_TokenReleased ==
    /\ (rateLimiter = 1) ~> (rateLimiter = 0)
    /\ \A i \in 1..MaxRecords : Waiting(i) ~> ~Waiting(i)

\* after a throttled batch and a failed batch the token is free again, and a
\* batch waits for it
C36_Witness ==
    /\ rateLimiter = 0
    /\ stats.rateLimited = 1
    /\ stats.failed > stats.rateLimited * BatchSize
    /\ \E i \in 1..Len(tasks) : tasks[i].pc = "wait"

\* C37: whenever no batch is in its provider call, successfulAnalyses +
\* failedAnalyses <= totalAnalyses, on the batch path and on the one-by-one path,
\* also after a throttled batch.
C37_CountersConsistent ==
    (\A i \in 1..Len(tasks) : tasks[i].pc \notin CallPcs) =>
        stats.ok + stats.failed <= stats.total

\* C38: when Stop has returned (the context is cancelled and the worker has ended)
\* no goroutine that the Analyzer started is still there: no processBatch call and
\* no requeue goroutine is left to write to the store or to submit.
C38_NothingRunsAfterStop ==
    (ctxDone /\ worker = "done") => (tasks = <<>> /\ requeues = <<>>)
====
